---------------------------- MODULE Spec2Model ----------------------------
(***************************************************************************)
(* Model of the polygonalize pipeline: PathGraphBuilder::from (adjacency   *)
(* list and dead-end pruning), PathGraphBuilder::build (plane-annotated    *)
(* successor graph), PathBuilder::build / traverse (plane-constrained      *)
(* depth-first tracing) and Path (validation, orientation, equality).      *)
(*                                                                         *)
(* Numbers.  Coordinates are triples of integers.  A CoordinatesVector of  *)
(* the program is a unit vector; here it is the integer vector with the    *)
(* same direction whose components have no common factor, and every test   *)
(* the program makes on unit vectors (norm <= epsilon, sign of a           *)
(* component, comparison of two angles) is made exactly on the integer     *)
(* representatives, in real arithmetic: floating-point rounding is not     *)
(* modelled.  epsilon is the rational EpsNum / EpsDen.                     *)
(***************************************************************************)
EXTENDS Integers, Sequences, FiniteSets, TLC

\* tests::example_two_planes, const EPSILON: f64 = 0.1
EpsNum == 1
EpsDen == 10

\* Largest number of segments fed to PathGraphBuilder::from in SpecPrune.
MaxSegments == 5

-----------------------------------------------------------------------------
(* Integer helpers *)

Abs(n) == IF n < 0 THEN -n ELSE n

RECURSIVE Gcd(_, _)
Gcd(a, b) == IF b = 0 THEN Abs(a) ELSE Gcd(b, a % b)

Gcd3(v) == Gcd(Gcd(Abs(v[1]), Abs(v[2])), Abs(v[3]))

Range(s) == {s[i] : i \in 1..Len(s)}

Last(s) == s[Len(s)]

Reverse(s) == [i \in 1..Len(s) |-> s[Len(s) + 1 - i]]

-----------------------------------------------------------------------------
(* coordinates.rs: Coordinates and CoordinatesVector *)

ZeroVector == <<0, 0, 0>>

\* impl Ord for Coordinates: lexicographic on (x, y, z)
cmp(a, b) ==
    IF a[1] < b[1] THEN -1
    ELSE IF a[1] > b[1] THEN 1
    ELSE IF a[2] < b[2] THEN -1
    ELSE IF a[2] > b[2] THEN 1
    ELSE IF a[3] < b[3] THEN -1
    ELSE IF a[3] > b[3] THEN 1
    ELSE 0

\* CoordinatesVector::dot
dot(a, b) == a[1] * b[1] + a[2] * b[2] + a[3] * b[3]

\* the squared norm: CoordinatesVector::norm is its square root
norm2(a) == dot(a, a)

\* the cross product computed in CoordinatesVector::normal
cross(a, b) ==
    << a[2] * b[3] - a[3] * b[2],
       a[3] * b[1] - a[1] * b[3],
       a[1] * b[2] - a[2] * b[1] >>

\* CoordinatesVector::rescale by a negative multiplier (flip)
flip(a) == << -a[1], -a[2], -a[3] >>

\* The representative of the unit vector self / norm(self).
Unit(v) ==
    IF v = ZeroVector THEN ZeroVector
    ELSE LET g == Gcd3(v) IN << v[1] \div g, v[2] \div g, v[3] \div g >>

\* CoordinatesVector::unscaled
unscaled(connection) ==
    << connection[2][1] - connection[1][1],
       connection[2][2] - connection[1][2],
       connection[2][3] - connection[1][3] >>

\* CoordinatesVector::from: the normalized displacement of a connection.
\* A zero displacement makes normalize(f64::EPSILON) return None, on which
\* normalized() unwraps: CanNormalize tells whether from() returns at all.
CanNormalize(connection) == unscaled(connection) # ZeroVector

VectorFrom(connection) == Unit(unscaled(connection))

\* norm(a x b) <= epsilon for the unit vectors represented by a and b:
\* |A x B|^2 * EpsDen^2 <= EpsNum^2 * |A|^2 * |B|^2
CrossNormWithin(a, b) ==
    norm2(cross(a, b)) * EpsDen * EpsDen <= EpsNum * EpsNum * norm2(a) * norm2(b)

\* the same test against f64::EPSILON: only an exactly vanishing cross product
CrossNormVanishes(a, b) == cross(a, b) = ZeroVector

\* CoordinatesVector::is_parallel_to(other, epsilon)
is_parallel_to(a, b) == CrossNormWithin(a, b)

-----------------------------------------------------------------------------
(* plane.rs: PlaneMatcher.  A matcher is [defined, normal]; its epsilon is  *)
(* the one of the run.  The basis (u, v) of a Plane is not stored: with     *)
(* u = normal x r and v = normal x u the frame (u, v, normal) is            *)
(* right-handed and orthonormal whatever the reference vector r, so that    *)
(* the projected quantities used below depend on the normal alone:          *)
(*   v.y * u.x - v.x * u.y  =  normal . (current x successor)               *)
(*   u.x * v.x + u.y * v.y  =  current . successor                          *)
(*                             - (normal . current)(normal . successor)     *)

\* PlaneMatcher::undefined
UndefinedPlane == [defined |-> FALSE, normal |-> ZeroVector]

\* PlaneMatcher::is_undefined
is_undefined(plane) == ~plane.defined

\* PlaneMatcher::between: undefined when the cross product of the two unit
\* vectors has norm <= epsilon, else the plane of the normalized cross
\* product, flipped when its z entry is negative.
between(current, successor) ==
    LET c == cross(current, successor) IN
    IF CrossNormWithin(current, successor) THEN UndefinedPlane
    ELSE [defined |-> TRUE,
          normal  |-> IF c[3] < 0 THEN Unit(flip(c)) ELSE Unit(c)]

\* PlaneMatcher::is_same_as, and PartialEq for PlaneMatcher
is_same_as(self, other) ==
    IF self.defined /\ other.defined
    THEN is_parallel_to(self.normal, other.normal)
    ELSE FALSE

\* Option<PlaneMatcher>
None == [some |-> FALSE, plane |-> UndefinedPlane]
Some(plane) == [some |-> TRUE, plane |-> plane]

\* a matching that succeeds only from a concrete `self`
MatchAgainstConcrete(self, other) ==
    IF self.defined /\ other.defined
    THEN IF is_parallel_to(self.normal, other.normal) THEN Some(self) ELSE None
    ELSE IF self.defined THEN Some(self)
    ELSE None

\* a matching in which a concrete `self` gives way to an undefined `other`
MatchAgainstOther(self, other) ==
    IF self.defined /\ other.defined
    THEN IF is_parallel_to(self.normal, other.normal) THEN Some(self) ELSE None
    ELSE IF self.defined \/ other.defined THEN Some(other)
    ELSE None

\* a match under which two undefined planes give an undefined plane
MatchAgainstUndefined(self, other) ==
    IF self.defined /\ other.defined
    THEN IF is_parallel_to(self.normal, other.normal) THEN Some(self) ELSE None
    ELSE IF self.defined THEN Some(self)
    ELSE Some(other)

\* PlaneMatcher::match_against(&self, other) as plane.rs has it
match_against(self, other) ==
    IF self.defined /\ other.defined
    THEN IF is_parallel_to(self.normal, other.normal) THEN Some(self) ELSE None
    ELSE IF self.defined THEN Some(self)
    ELSE IF other.defined THEN Some(other)
    ELSE None

\* PlaneMatcher::match_against(&self, other, relaxed), the two-argument form
\* PathBuilder::traverse calls: two concrete planes match unconditionally
\* when relaxed is set.
match_against_relaxed(self, other, relaxed) ==
    IF relaxed /\ self.defined /\ other.defined THEN Some(self)
    ELSE match_against(self, other)

\* The argument of atan2 in PlaneMatcher::project_angle_between, as the pair
\* <<x, y>> standing for the direction x + i * y * sqrt(norm2(normal)):
\*   x = |N|^2 (A . B) - (N . A)(N . B),   y = N . (A x B)
\* both scaled by the same positive factor.
Turn(plane, current, successor) ==
    LET n == plane.normal
        x == norm2(n) * dot(current, successor) - dot(n, current) * dot(n, successor)
        y == dot(n, cross(current, successor))
        g == Gcd(Abs(x), Abs(y))
    IN  IF g = 0 THEN <<1, 0>> ELSE << x \div g, y \div g >>

\* PlaneMatcher::project: None for an undefined plane.  For a defined plane
\* the projected vector has the norm of the unit vector projected, 1, and
\* normalize(epsilon) fails on it only when epsilon >= 1.
project_defined(plane) == plane.defined /\ EpsNum < EpsDen

\* The sector of atan2's value phi in (-pi, pi]:
\* 0: phi < 0,  1: phi = 0,  2: 0 < phi < pi,  3: phi = pi
Sector(t) ==
    IF t[2] < 0 THEN 0
    ELSE IF t[2] > 0 THEN 2
    ELSE IF t[1] < 0 THEN 3 ELSE 1

\* Ordering of two clockwise angles pi + atan2(y, x) on the same plane:
\* -1, 0 or 1 as f64::partial_cmp orders them.
AngleCmp(s, t) ==
    IF Sector(s) < Sector(t) THEN -1
    ELSE IF Sector(s) > Sector(t) THEN 1
    ELSE LET d == s[1] * t[2] - t[1] * s[2] IN
         IF d > 0 THEN -1 ELSE IF d < 0 THEN 1 ELSE 0

\* PlaneMatcher::project_angle_between as an Option: [some, turn]
NoAngle == [some |-> FALSE, turn |-> <<1, 0>>]

project_angle_between(plane, current, successor) ==
    IF project_defined(plane)
    THEN [some |-> TRUE, turn |-> Turn(plane, current, successor)]
    ELSE NoAngle

\* Option<f64>::partial_cmp of two projected angles: None sorts first.
OptionAngleCmp(a, b) ==
    IF ~a.some /\ ~b.some THEN 0
    ELSE IF ~a.some THEN -1
    ELSE IF ~b.some THEN 1
    ELSE AngleCmp(a.turn, b.turn)

-----------------------------------------------------------------------------
(* path.rs: Path.  A Path is [sequence, set].                               *)

\* Path::new
Path_new == [sequence |-> <<>>, set |-> {}]

\* Path::push
Path_push(path, coordinates) ==
    [sequence |-> Append(path.sequence, coordinates),
     set      |-> path.set \cup {coordinates}]

RECURSIVE PushAll(_, _, _)
PushAll(path, sequence, i) ==
    IF i > Len(sequence) THEN path
    ELSE PushAll(Path_push(path, sequence[i]), sequence, i + 1)

\* Path::from: every point pushed in order, then the first one repeated in
\* the sequence only.
Path_from(sequence) ==
    LET result == PushAll(Path_new, sequence, 1) IN
    IF sequence # <<>>
    THEN [result EXCEPT !.sequence = Append(result.sequence, sequence[1])]
    ELSE result

\* an equality of Paths that compares their sequences
SameSequence(p, q) == p.sequence = q.sequence

\* impl PartialEq for Path
Path_eq(p, q) == p.set = q.set

\* impl Hash for Path: the coordinates of the BTreeSet, in ascending order,
\* are fed to the hasher one after the other.
RECURSIVE Ascending(_)
Ascending(set) ==
    IF set = {} THEN <<>>
    ELSE LET least == CHOOSE a \in set : \A b \in set : cmp(a, b) <= 0
         IN  <<least>> \o Ascending(set \ {least})

Path_hash(p) == Ascending(p.set)

\* The edges of a closed sequence as unit vectors: edge i joins
\* sequence[i] and sequence[i + 1].
Edge(sequence, i) == VectorFrom(<<sequence[i], sequence[i + 1]>>)

\* The 0-based loop of sum_interior_angles_on, index in 0..len-2, then the
\* closing angle between (sequence[len-2], sequence[0]) and
\* (sequence[0], sequence[1]), as the list of the arguments of atan2.
Turns(sequence, plane) ==
    LET n == Len(sequence) IN
    [k \in 1..(n - 1) |->
        IF k <= n - 2
        THEN Turn(plane, Edge(sequence, k), Edge(sequence, k + 1))
        ELSE Turn(plane, VectorFrom(<<sequence[n - 1], sequence[1]>>),
                         Edge(sequence, 1))]

\* phi in (0, pi], phi in (-pi, 0)
Positive(t) == Sector(t) >= 2
Negative(t) == Sector(t) = 0

\* The running sum of the values atan2 returns, kept exactly as
\* 2 * pi * q + arg(w) with arg(w) in (-pi, pi]; w = <<x, y>> stands for
\* x + i * y * sqrt(m).  Adding phi = arg(t) multiplies w by t and moves q
\* when the sum of the two arguments leaves (-pi, pi].
AddTurn(acc, t, m) ==
    LET w  == acc.w
        x  == w[1] * t[1] - m * w[2] * t[2]
        y  == w[1] * t[2] + w[2] * t[1]
        g  == Gcd(Abs(x), Abs(y))
        w2 == << x \div g, y \div g >>
    IN  [q |-> IF Positive(w) /\ Positive(t) /\ ~Positive(w2) THEN acc.q + 1
               ELSE IF Negative(w) /\ Negative(t) /\ ~Negative(w2) THEN acc.q - 1
               ELSE acc.q,
         w |-> w2]

RECURSIVE SumTurns(_, _, _, _)
SumTurns(acc, turns, m, k) ==
    IF k > Len(turns) THEN acc
    ELSE SumTurns(AddTurn(acc, turns[k], m), turns, m, k + 1)

\* Path::sum_interior_angles_on: None when a projection fails.  Each angle
\* is pi + atan2(..), so the total of the len - 1 angles is
\* (len - 1) * pi + 2 * pi * q + arg(w).
sum_interior_angles_on(sequence, plane) ==
    IF project_defined(plane)
    THEN [some |-> TRUE,
          sum  |-> SumTurns([q |-> 0, w |-> <<1, 0>>], Turns(sequence, plane),
                            norm2(plane.normal), 1)]
    ELSE [some |-> FALSE, sum |-> [q |-> 0, w |-> <<1, 0>>]]

\* |arg(w)| <= tolerance, with tan(tolerance) taken as tolerance
ArgWithin(w, m) ==
    /\ w[1] > 0
    /\ w[2] * w[2] * m * EpsDen * EpsDen <= EpsNum * EpsNum * w[1] * w[1]

\* Path::is_valid_on:
\* |total - pi * (len - 3)| = |2 * pi * (q + 1) + arg(w)| <= tolerance,
\* which for a tolerance below pi needs q = -1.
is_valid_on(path, plane) ==
    IF path.sequence = <<>> \/ path.sequence[1] # Last(path.sequence) THEN FALSE
    ELSE LET total == sum_interior_angles_on(path.sequence, plane) IN
         IF total.some
         THEN total.sum.q = -1 /\ ArgWithin(total.sum.w, norm2(plane.normal))
         ELSE FALSE

\* the z entry of the normal of two consecutive edges, Some only when the
\* edges are not parallel within f64::EPSILON
NormalZ(sequence, i) == cross(Edge(sequence, i), Edge(sequence, i + 1))[3]

\* an orientation that leaves the first point in place and reverses the
\* points after it
ReverseKeepsFirst(path) ==
    LET seq == path.sequence IN
    IF \E i \in 1..(Len(seq) - 2) : NormalZ(seq, i) < 0
    THEN [path EXCEPT !.sequence = <<seq[1]>> \o Reverse(Tail(seq))]
    ELSE path

\* an orientation decided by the first index whose normal exists, alone
ReverseOnFirstNormal(path) ==
    LET seq    == path.sequence
        normal == {i \in 1..(Len(seq) - 2) :
                      cross(Edge(seq, i), Edge(seq, i + 1)) # ZeroVector}
    IN  IF normal = {} THEN path
        ELSE LET index == CHOOSE i \in normal : \A j \in normal : i <= j IN
             IF NormalZ(seq, index) < 0
             THEN [path EXCEPT !.sequence = Reverse(seq)]
             ELSE path

\* Path::reverse_if_normal_is_negative (path.rs): the loop goes on to the
\* next index when a normal exists and its z is not negative, and reverses
\* at the first index whose normal has a negative z.
Path_reverse_if_normal_is_negative(path) ==
    LET seq == path.sequence IN
    IF \E i \in 1..(Len(seq) - 2) : NormalZ(seq, i) < 0
    THEN [path EXCEPT !.sequence = Reverse(seq)]
    ELSE path

\* PolygonalPath::reverse_if_normal_is_negative (polygon.rs): the first
\* index whose two edges are not parallel within epsilon decides alone.
PolygonalPath_reverse_if_normal_is_negative(path) ==
    LET seq  == path.sequence
        free == {i \in 1..(Len(seq) - 2) :
                    ~is_parallel_to(Edge(seq, i), Edge(seq, i + 1))}
    IN  IF free = {} THEN path
        ELSE LET index == CHOOSE i \in free : \A j \in free : i <= j IN
             IF NormalZ(seq, index) < 0
             THEN [path EXCEPT !.sequence = Reverse(seq)]
             ELSE path

\* Twice the signed area of the projection of a closed sequence on the xy
\* plane: positive when the projection is traversed counter-clockwise.
RECURSIVE Shoelace(_, _)
Shoelace(sequence, i) ==
    IF i >= Len(sequence) THEN 0
    ELSE sequence[i][1] * sequence[i + 1][2] - sequence[i + 1][1] * sequence[i][2]
         + Shoelace(sequence, i + 1)

SignedArea2(sequence) == Shoelace(sequence, 1)

-----------------------------------------------------------------------------
(* State *)

VARIABLES
    pc,           \* the statement the pipeline is at
    connections,  \* the list of lines the test calls from() with
    lines,        \* connections PathGraphBuilder::from has still to read
    fed,          \* number of connections read so far
    adjacencies,  \* PathGraphBuilder.adjacencies: point -> set of points
    leaves,       \* from(): the leaves of the current pruning round
    todo,         \* from(): the leaves the for loop has still to visit
    updated,      \* from(): the next generation of leaves
    rounds,       \* from(): iterations of the while loop completed
    first,        \* the adjacencies a first run of from() returned, when
                  \* its edges are fed to a second run
    pending,      \* build(): junctions the outer loop has still to visit
    intersections,\* build(): connection -> list of (matcher, successors)
    undefined,    \* build(): the collinear pairs, incident -> adjacent
    graph,        \* PathGraph.intersections: connection -> list of
                  \* (matcher, successor)
    roots,        \* PathBuilder::build: the keys its loop has still to visit
    cache,        \* RecursionCache.table: triple -> list of planes
    paths,        \* PathBuilder.paths, in insertion order
    stack,        \* PathBuilder.stack
    seen,         \* PathBuilder.seen
    frames,       \* the calls of traverse in progress, the innermost last
    result,       \* the RecursionResult the last call returned, until its
                  \* caller has taken it
    matched,      \* the last call of match_against: its arguments, the
                  \* number of matchers of the connection, and its result
    saved,        \* the last call of save: its arguments, whether the path
                  \* was valid, and the path handed to paths.insert
    operand,      \* a closed Path handed to reverse_if_normal_is_negative
    oriented,     \* Path::reverse_if_normal_is_negative applied to operand
                  \* once, twice, ...: the results in order
    polygonal,    \* the same for PolygonalPath::reverse_if_normal_is_negative
    unfiltered,   \* the polygons handed to the fundamental-polygon filter
    filtered,     \* the polygons it returned
    left,         \* a Path whose coordinates are f64 bit patterns
    right,        \* another one
    index,        \* an IndexSet<Path> the two are inserted into
    lhs,          \* a PlaneMatcher
    rhs,          \* another one, built with the same epsilon
    comparison,   \* lhs and rhs compared and matched in both directions
    points,       \* Points, as f64 bit patterns, looked up one after the other
                  \* in a HashMap keyed by Coordinates
    keys,         \* the keys of that HashMap, in insertion order
    node,         \* for each Point looked up so far, the key it resolved to
    candidate,    \* a Path handed to PathBuilder::save
    given,        \* the plane handed to save with it
    verdict,      \* what save did: the angle sum, the validity, `paths`
                  \* before and after the call
    run,          \* 1 in the first run of the pipeline, 2 in a second run
                  \* on the same lines
    keep,         \* whether PathBuilder::build keeps one cache for all its
                  \* root connections, as PolygonalPathBuilder::build does
    previous      \* the vertex sets of the polygons of the first run

pruneVars == <<connections, lines, fed, adjacencies, leaves, todo, updated, rounds, first>>

graphVars == <<pending, intersections, undefined, graph>>

traceVars == <<roots, cache, paths, stack, seen, frames, result, matched, saved>>

orientVars == <<operand, oriented, polygonal>>

filterVars == <<unfiltered, filtered>>

equalVars == <<left, right, index>>

planeVars == <<lhs, rhs, comparison>>

nodeVars == <<points, keys, node>>

validVars == <<candidate, given, verdict>>

unitVars == <<planeVars, nodeVars, validVars>>

runVars == <<run, keep, previous>>

pureVars == <<orientVars, filterVars, equalVars, unitVars, runVars>>

vars == <<pc, pruneVars, graphVars, traceVars, pureVars>>

\* the filter has not run
NotFiltered == {<<>>}

\* no Path is being oriented
NoOrient ==
    /\ operand = Path_new
    /\ oriented = <<>>
    /\ polygonal = <<>>

\* no list of polygons is being filtered
NoFilter ==
    /\ unfiltered = {}
    /\ filtered = NotFiltered

\* no two Paths are being compared
NoEquality ==
    /\ left = [sequence |-> <<>>, set |-> <<>>]
    /\ right = [sequence |-> <<>>, set |-> <<>>]
    /\ index = <<>>

\* the two matchers have not been compared
NotCompared ==
    [made |-> FALSE, eq |-> FALSE, qe |-> FALSE,
     forward |-> None, backward |-> None]

\* no two plane matchers are being compared
NoComparison ==
    /\ lhs = UndefinedPlane
    /\ rhs = UndefinedPlane
    /\ comparison = NotCompared

\* no function is being applied on its own
\* no Point is being looked up
NoNodes ==
    /\ points = <<>>
    /\ keys = <<>>
    /\ node = <<>>

\* Option<f64>: no angle sum
NoTotal == [some |-> FALSE, sum |-> [q |-> 0, w |-> <<1, 0>>]]

\* save has not been called
NotSaved ==
    [made |-> FALSE, total |-> NoTotal, valid |-> FALSE,
     before |-> <<>>, after |-> <<>>]

\* no candidate is being saved
NoCandidate ==
    /\ candidate = Path_new
    /\ given = UndefinedPlane
    /\ verdict = NotSaved

NoUnit ==
    /\ NoComparison
    /\ NoNodes
    /\ NoCandidate

\* the first run, with the cache cleared at each root as in path.rs
FirstRun ==
    /\ run = 1
    /\ keep = FALSE
    /\ previous = {}

InitPure ==
    /\ NoOrient
    /\ NoFilter
    /\ NoEquality
    /\ NoUnit
    /\ FirstRun

-----------------------------------------------------------------------------
(* pathgraph.rs: PathGraphBuilder::from *)

NoAdjacencies == [p \in {} |-> {}]

\* adjacencies.entry(u).and_modify(|to| to.insert(v)).or_insert({v})
Entry(adj, u, v) ==
    IF u \in DOMAIN adj
    THEN [adj EXCEPT ![u] = @ \cup {v}]
    ELSE [p \in DOMAIN adj \cup {u} |-> IF p = u THEN {v} ELSE adj[p]]

\* one iteration of `for (u, v) in connections`
Insert(adj, u, v) == Entry(Entry(adj, u, v), v, u)

\* a removal that empties the entry of `leaf` and keeps its key
RemoveKeepsKey(adj, leaf) == [adj EXCEPT ![leaf] = {}]

\* adjacencies.remove(leaf)
Remove(adj, leaf) == [p \in DOMAIN adj \ {leaf} |-> adj[p]]

\* a filter that finds the points without a neighbour
IsIsolated(adj, p) == Cardinality(adj[p]) = 0

\* the filter that finds the dead ends: exactly one neighbour
IsLeaf(adj, p) == Cardinality(adj[p]) = 1

\* a marking test that lets a neighbour left with one connection go unmarked
MarksAdjacentLate(adj, adjacent) == Cardinality(adj[adjacent]) <= 1

\* the test that marks `adjacent` for the next round, made before `leaf` is
\* removed from its neighbours
MarksAdjacent(adj, adjacent) == Cardinality(adj[adjacent]) <= 2

\* The body of `for leaf in &leaves` for a leaf that is still a key and has
\* a neighbour `adjacent`: [adjacencies, updated] after it.
PruneWith(adj, upd, leaf, adjacent) ==
    [adjacencies |-> Remove([adj EXCEPT ![adjacent] = @ \ {leaf}], leaf),
     updated     |-> IF MarksAdjacent(adj, adjacent)
                     THEN upd \cup {adjacent} ELSE upd]

\* the edges of an adjacency mapping, each in both directions
RECURSIVE SeqOf(_)
SeqOf(set) ==
    IF set = {} THEN <<>>
    ELSE LET x == CHOOSE y \in set : TRUE IN <<x>> \o SeqOf(set \ {x})

Edges(adj) == {e \in (DOMAIN adj) \X (DOMAIN adj) : e[2] \in adj[e[1]]}

\* from(): one iteration of the loop over `connections`
InsertConnection ==
    /\ pc = "insert"
    /\ lines # <<>>
    /\ adjacencies' = Insert(adjacencies, Head(lines)[1], Head(lines)[2])
    /\ lines' = Tail(lines)
    /\ fed' = fed + 1
    /\ UNCHANGED <<pureVars, pc, connections, leaves, todo, updated, rounds, first, graphVars,
                   traceVars>>

\* from(): the connections are exhausted; the leaves are collected and the
\* while loop is entered, or skipped when there is no leaf.
CollectLeaves ==
    /\ pc = "insert"
    /\ lines = <<>>
    /\ LET found == {p \in DOMAIN adjacencies : IsLeaf(adjacencies, p)} IN
       /\ leaves' = found
       /\ todo' = found
       /\ pc' = IF found = {} THEN "pruned" ELSE "prune"
    /\ updated' = {}
    /\ UNCHANGED <<pureVars, connections, lines, fed, adjacencies, rounds, first, graphVars,
                   traceVars>>

\* from(): one iteration of `for leaf in &leaves`; a HashSet is iterated in
\* no specified order, and iter().next() yields any neighbour.
PruneLeaf(leaf) ==
    /\ pc = "prune"
    /\ leaf \in todo
    /\ todo' = todo \ {leaf}
    /\ IF leaf \in DOMAIN adjacencies
       THEN IF adjacencies[leaf] # {}
            THEN \E adjacent \in adjacencies[leaf] :
                    IF adjacent \in DOMAIN adjacencies
                    THEN LET r == PruneWith(adjacencies, updated, leaf, adjacent) IN
                         /\ adjacencies' = r.adjacencies
                         /\ updated' = r.updated
                         /\ pc' = pc
                    ELSE \* adjacencies[adjacent] indexes a missing key
                         /\ pc' = "panic"
                         /\ UNCHANGED <<adjacencies, updated>>
            ELSE /\ adjacencies' = Remove(adjacencies, leaf)
                 /\ UNCHANGED <<updated, pc>>
       ELSE UNCHANGED <<adjacencies, updated, pc>>
    /\ UNCHANGED <<pureVars, connections, lines, fed, leaves, rounds, first, graphVars,
                   traceVars>>

\* from(): the for loop is over: leaves = updated, and the while loop goes
\* on or ends.
NextRound ==
    /\ pc = "prune"
    /\ todo = {}
    /\ leaves' = updated
    /\ todo' = updated
    /\ updated' = {}
    /\ rounds' = rounds + 1
    /\ pc' = IF updated = {} THEN "pruned" ELSE "prune"
    /\ UNCHANGED <<pureVars, connections, lines, fed, adjacencies, first, graphVars, traceVars>>

-----------------------------------------------------------------------------
(* pathgraph.rs: PathGraphBuilder::build *)

NoIntersections == [c \in {} |-> <<>>]

InitGraph ==
    /\ pending = {}
    /\ intersections = NoIntersections
    /\ undefined = NoIntersections
    /\ graph = NoIntersections

\* intersections.entry(connection).or_default()
OrDefault(map, connection) ==
    IF connection \in DOMAIN map THEN map
    ELSE [c \in DOMAIN map \cup {connection} |->
            IF c = connection THEN <<>> ELSE map[c]]

\* undefined.insert(incident, adjacent): a later pair of the same incident
\* connection replaces the earlier one
MapInsert(map, key, value) ==
    [c \in DOMAIN map \cup {key} |-> IF c = key THEN value ELSE map[c]]

\* ProjectedIntersection::on_plane
on_plane(plane, current, successor) ==
    [successor |-> successor,
     angle     |-> project_angle_between(plane, VectorFrom(current),
                                         VectorFrom(successor))]

\* the loop over the planes already identified for `incident`: `adjacent`
\* is pushed on every bucket whose matcher equals `plane`
PushOnMatching(matchers, plane, incident, adjacent) ==
    [k \in 1..Len(matchers) |->
        IF is_same_as(matchers[k].matcher, plane)
        THEN [matchers[k] EXCEPT !.successors =
                Append(@, on_plane(matchers[k].matcher, incident, adjacent))]
        ELSE matchers[k]]

\* `matched` after that loop
Matched(matchers, plane) ==
    \E k \in 1..Len(matchers) : is_same_as(matchers[k].matcher, plane)

\* the body of `for v in neighbors` for u # v; st is [intersections, undefined]
VisitPair(st, intersection, u, v) ==
    LET incident == <<u, intersection>>
        adjacent == <<intersection, v>>
        plane    == between(VectorFrom(incident), VectorFrom(adjacent))
        map      == OrDefault(st.intersections, adjacent)
    IN  IF is_undefined(plane)
        THEN [intersections |-> map,
              undefined     |-> MapInsert(st.undefined, incident, adjacent)]
        ELSE [intersections |->
                [map EXCEPT ![incident] =
                    IF Matched(@, plane)
                    THEN PushOnMatching(@, plane, incident, adjacent)
                    ELSE Append(@, [matcher    |-> plane,
                                    successors |-> <<on_plane(plane, incident, adjacent)>>])],
              undefined |-> st.undefined]

RECURSIVE VisitSuccessors(_, _, _, _, _)
VisitSuccessors(st, intersection, u, order, j) ==
    IF j > Len(order) THEN st
    ELSE VisitSuccessors(
            IF u # order[j] THEN VisitPair(st, intersection, u, order[j]) ELSE st,
            intersection, u, order, j + 1)

\* the body of `for u in neighbors`
RECURSIVE VisitNeighbors(_, _, _, _)
VisitNeighbors(st, intersection, order, i) ==
    IF i > Len(order) THEN st
    ELSE VisitNeighbors(
            VisitSuccessors(
                [st EXCEPT !.intersections =
                    OrDefault(@, <<order[i], intersection>>)],
                intersection, order[i], order, 1),
            intersection, order, i + 1)

\* the orders in which a HashSet may be iterated
Orders(set) ==
    {order \in [1..Cardinality(set) -> set] :
        \A i, j \in 1..Cardinality(set) : i # j => order[i] # order[j]}

\* CoordinatesVector::from unwraps a failed normalization: the incident
\* connection of a junction that is its own neighbour has no direction.
DegenerateAt(intersection) ==
    /\ intersection \in adjacencies[intersection]
    /\ adjacencies[intersection] # {intersection}

\* build() is called on the pruned adjacencies
EnterBuild ==
    /\ pc = "pruned"
    /\ pc' = "graph"
    /\ pending' = DOMAIN adjacencies
    /\ intersections' = NoIntersections
    /\ undefined' = NoIntersections
    /\ UNCHANGED <<pureVars, pruneVars, graph, traceVars>>

\* build(): one iteration of `for (intersection, neighbors) in
\* &self.adjacencies`; u and v run over `neighbors` in the same order
BuildJunction(intersection) ==
    /\ pc = "graph"
    /\ intersection \in pending
    /\ pending' = pending \ {intersection}
    /\ IF DegenerateAt(intersection)
       THEN /\ pc' = "panic"
            /\ UNCHANGED <<intersections, undefined>>
       ELSE \E order \in Orders(adjacencies[intersection]) :
            LET st == VisitNeighbors([intersections |-> intersections,
                                      undefined     |-> undefined],
                                     intersection, order, 1) IN
            /\ intersections' = st.intersections
            /\ undefined' = st.undefined
            /\ pc' = pc
    /\ UNCHANGED <<pureVars, pruneVars, graph, traceVars>>

\* the loop over the collinear pairs: `adjacent` is pushed on every plane
\* of `incident`, then registered on an undefined plane of its own
WithUndefined(map, undef) ==
    [c \in DOMAIN map |->
        IF c \in DOMAIN undef
        THEN Append(
                [k \in 1..Len(map[c]) |->
                    [map[c][k] EXCEPT !.successors =
                        Append(@, on_plane(map[c][k].matcher, c, undef[c]))]],
                [matcher    |-> UndefinedPlane,
                 successors |-> <<[successor |-> undef[c], angle |-> NoAngle]>>])
        ELSE map[c]]

\* Iterator::min_by on the projected angles: the first of the least
MinByAngle(successors) ==
    LET least == CHOOSE i \in 1..Len(successors) :
                    /\ \A j \in 1..Len(successors) :
                          OptionAngleCmp(successors[i].angle, successors[j].angle) <= 0
                    /\ \A j \in 1..(i - 1) :
                          OptionAngleCmp(successors[j].angle, successors[i].angle) > 0
    IN  successors[least].successor

\* the PathGraph: per connection and plane the successor of least angle
Collapse(map) ==
    [c \in DOMAIN map |->
        [k \in 1..Len(map[c]) |->
            [matcher   |-> map[c][k].matcher,
             successor |-> MinByAngle(map[c][k].successors)]]]

\* build(): the junctions are exhausted; the collinear pairs are processed
\* and the PathGraph is returned
FinishBuild ==
    /\ pc = "graph"
    /\ pending = {}
    /\ intersections' = WithUndefined(intersections, undefined)
    /\ graph' = Collapse(intersections')
    /\ pc' = "built"
    /\ UNCHANGED <<pureVars, pruneVars, pending, undefined, traceVars>>

-----------------------------------------------------------------------------
(* path.rs: PathBuilder *)

\* RecursionResult
NoResult ==
    [kind |-> "None", destination |-> ZeroVector, plane |-> UndefinedPlane,
     sequence |-> <<>>]

\* RecursionResult::done
done == [NoResult EXCEPT !.kind = "Done"]

\* a result of the kind Done in the place of a Closure
ClosureLost == [NoResult EXCEPT !.kind = "Done"]

\* RecursionResult::closure
closure == [NoResult EXCEPT !.kind = "Closure"]

\* a Backtrack that starts from an empty sequence
BacktrackEmpty(destination, plane) ==
    [kind |-> "Backtrack", destination |-> destination, plane |-> plane,
     sequence |-> <<>>]

\* RecursionResult::backtrack
backtrack(destination, plane) ==
    [kind |-> "Backtrack", destination |-> destination, plane |-> plane,
     sequence |-> <<destination>>]

\* a propagation that appends nothing to the sequence
Discard(self, coordinates) == self

\* RecursionResult::enqueue
enqueue(self, coordinates) ==
    IF self.kind = "Backtrack"
    THEN [self EXCEPT !.sequence = Append(@, coordinates)]
    ELSE self

\* no call of save yet
NoSave ==
    [called |-> FALSE, by |-> "None", path |-> Path_new, plane |-> UndefinedPlane,
     valid |-> FALSE, out |-> Path_new, inserted |-> FALSE, inserts |-> {}]

NoMatch ==
    [called |-> FALSE, self |-> UndefinedPlane, other |-> UndefinedPlane,
     relaxed |-> FALSE, matchers |-> 0, out |-> None]

\* PathBuilder::from
InitTrace ==
    /\ roots = <<>>
    /\ cache = [t \in {} |-> <<>>]
    /\ paths = <<>>
    /\ stack = <<>>
    /\ seen = {}
    /\ frames = <<>>
    /\ result = NoResult
    /\ matched = NoMatch
    /\ saved = NoSave

\* PathBuilder::root
root(stk) == stk[1]

\* PathBuilder::precedent: Some only when the stack holds two points
has_precedent(stk) == Len(stk) >= 2

precedent(stk) == <<stk[Len(stk) - 1], stk[Len(stk)]>>

\* RecursionCache::contains
cache_contains(table, path, plane) ==
    /\ path \in DOMAIN table
    /\ \E k \in 1..Len(table[path]) : is_same_as(table[path][k], plane)

\* an insertion that records nothing
CacheKeep(table, path, plane) == table

\* RecursionCache::insert
cache_insert(table, path, plane) ==
    IF path \in DOMAIN table
    THEN [table EXCEPT ![path] = Append(@, plane)]
    ELSE [t \in DOMAIN table \cup {path} |->
            IF t = path THEN <<plane>> ELSE table[t]]

\* IndexSet::insert: an element equal to one of the set is not added
IndexSetInsert(set, path) ==
    IF \E k \in 1..Len(set) : Path_eq(set[k], path) THEN set
    ELSE Append(set, path)

\* a save that inserts the oriented path without validating it
SaveUnchecked(set, path, plane) ==
    IndexSetInsert(set, Path_reverse_if_normal_is_negative(path))

\* PathBuilder::save: `paths` after it
save(set, path, plane) ==
    IF is_valid_on(path, plane)
    THEN IndexSetInsert(set, Path_reverse_if_normal_is_negative(path))
    ELSE set

\* what a call of save did: `by` tells the caller, a Closure at the root or
\* a Backtrack taken at its destination; `inserts` collects the callers
\* whose path was added to `paths` so far
SaveCall(set, by, path, plane) ==
    [called   |-> TRUE, by |-> by, path |-> path, plane |-> plane,
     valid    |-> is_valid_on(path, plane),
     out      |-> IF is_valid_on(path, plane)
                  THEN Path_reverse_if_normal_is_negative(path) ELSE path,
     inserted |-> save(set, path, plane) # set,
     inserts  |-> IF save(set, path, plane) # set
                  THEN saved.inserts \cup {by} ELSE saved.inserts]

\* the matchers of a connection; a connection that is no key has none
MatchersOf(current) ==
    IF current \in DOMAIN graph THEN graph[current] ELSE <<>>

\* the `relaxed` argument traverse passes to match_against
Relaxed(matchers) == Len(matchers) = 1

\* impl Ord for (Coordinates, Coordinates)
ConnCmp(a, b) == IF cmp(a[1], b[1]) # 0 THEN cmp(a[1], b[1]) ELSE cmp(a[2], b[2])

RECURSIVE SortConns(_)
SortConns(set) ==
    IF set = {} THEN <<>>
    ELSE LET least == CHOOSE a \in set : \A b \in set : ConnCmp(a, b) <= 0
         IN  <<least>> \o SortConns(set \ {least})

\* The orders in which the keys of the PathGraph are visited.  A HashMap is
\* iterated in no specified order; of all the orders the model takes the
\* ascending and the descending one.  The cache is cleared and the stack is
\* empty at each key, so that the order can only decide which of two equal
\* Paths is the one kept in `paths`.
KeyOrders(set) ==
    IF set = {} THEN {<<>>}
    ELSE {SortConns(set), Reverse(SortConns(set))}

Top == frames[Len(frames)]

Pop(s) == SubSeq(s, 1, Len(s) - 1)

\* a call returns `value` to its caller
Return(value) ==
    /\ frames' = Pop(frames)
    /\ result' = value

\* PathBuilder::build is called on the graph; the maps local to
\* PathGraphBuilder::build are gone
EnterTrace ==
    /\ pc = "built"
    /\ \E order \in KeyOrders(DOMAIN graph) :
          /\ roots' = order
          /\ pc' = IF order = <<>> THEN "done" ELSE "trace"
    /\ intersections' = NoIntersections
    /\ undefined' = NoIntersections
    /\ UNCHANGED <<pureVars, pruneVars, pending, graph, cache, paths, stack, seen,
                   frames, result, matched, saved>>

\* an iteration of `for source in keys` that keeps the cache of the keys
\* before it
TraceRootKeeping ==
    /\ pc = "trace"
    /\ frames = <<>>
    /\ result.kind = "None"
    /\ roots # <<>>
    /\ stack' = Append(stack, Head(roots)[1])
    /\ seen' = seen \cup {Head(roots)[1]}
    /\ frames' = <<[current |-> Head(roots), plane |-> UndefinedPlane,
                    index |-> 1, at |-> "enter"]>>
    /\ UNCHANGED <<pureVars, pc, pruneVars, graphVars, roots, cache, paths, result,
                   matched, saved>>

\* build(): an iteration of `for source in keys` up to the call of traverse
TraceRoot ==
    /\ pc = "trace"
    /\ frames = <<>>
    /\ result.kind = "None"
    /\ roots # <<>>
    /\ cache' = IF keep THEN cache ELSE [t \in {} |-> <<>>]
    /\ stack' = Append(stack, Head(roots)[1])
    /\ seen' = seen \cup {Head(roots)[1]}
    /\ frames' = <<[current |-> Head(roots), plane |-> UndefinedPlane,
                    index |-> 1, at |-> "enter"]>>
    /\ UNCHANGED <<pureVars, pc, pruneVars, graphVars, roots, paths, result, matched, saved>>

\* traverse(): from its entry to its first return, or to its loop
TraverseEnter ==
    /\ pc = "trace"
    /\ frames # <<>>
    /\ Top.at = "enter"
    /\ LET current == Top.current
           plane   == Top.plane
       IN  IF /\ has_precedent(stack)
              /\ cache_contains(cache, <<precedent(stack)[1], precedent(stack)[2],
                                         current[2]>>, plane)
           THEN /\ Return(done)
                /\ UNCHANGED <<paths, saved>>
           ELSE IF current[2] = root(stack)
           THEN /\ paths' = save(paths, Path_from(stack), plane)
                /\ saved' = SaveCall(paths, "Closure", Path_from(stack), plane)
                /\ Return(closure)
           ELSE IF current[2] \in seen
           THEN /\ Return(backtrack(current[2], plane))
                /\ UNCHANGED <<paths, saved>>
           ELSE /\ frames' = [frames EXCEPT ![Len(frames)].at = "loop"]
                /\ UNCHANGED <<paths, result, saved>>
    /\ UNCHANGED <<pureVars, pc, pruneVars, graphVars, roots, cache, stack, seen, matched>>

\* traverse(): one (matcher, successor) pair of the loop, up to the
\* recursive call; or, the pairs exhausted, the cache entry and Done
TraverseLoop ==
    /\ pc = "trace"
    /\ frames # <<>>
    /\ Top.at = "loop"
    /\ LET current  == Top.current
           plane    == Top.plane
           matchers == MatchersOf(current)
       IN  IF Top.index > Len(matchers)
           THEN /\ cache' = IF has_precedent(stack)
                            THEN cache_insert(cache,
                                    <<precedent(stack)[1], precedent(stack)[2],
                                      current[2]>>, plane)
                            ELSE cache
                /\ Return(done)
                /\ UNCHANGED <<stack, seen, matched>>
           ELSE LET matcher == matchers[Top.index].matcher
                    out     == match_against_relaxed(matcher, plane, Relaxed(matchers))
                IN  /\ matched' = [called |-> TRUE, self |-> matcher, other |-> plane,
                                   relaxed |-> Relaxed(matchers),
                                   matchers |-> Len(matchers), out |-> out]
                    /\ IF out.some
                       THEN /\ stack' = Append(stack, current[2])
                            /\ seen' = seen \cup {current[2]}
                            /\ frames' = Append(
                                  [frames EXCEPT ![Len(frames)].at = "call"],
                                  [current |-> matchers[Top.index].successor,
                                   plane |-> out.plane, index |-> 1, at |-> "enter"])
                       ELSE /\ frames' = [frames EXCEPT ![Len(frames)].index = @ + 1]
                            /\ UNCHANGED <<stack, seen>>
                    /\ UNCHANGED <<cache, result>>
    /\ UNCHANGED <<pureVars, pc, pruneVars, graphVars, roots, paths, saved>>

\* traverse(): the recursive call has returned
TraverseResume ==
    /\ pc = "trace"
    /\ frames # <<>>
    /\ Top.at = "call"
    /\ result.kind # "None"
    /\ LET current == Top.current IN
       IF result.kind = "Backtrack" /\ result.destination # current[2]
       THEN \* self.pop(); return result.enqueue(&current.1)
            /\ Return(enqueue(result, current[2]))
            /\ UNCHANGED <<paths, saved>>
       ELSE /\ paths' = IF result.kind = "Backtrack"
                        THEN save(paths, Path_from(result.sequence), result.plane)
                        ELSE paths
            /\ saved' = IF result.kind = "Backtrack"
                        THEN SaveCall(paths, "Backtrack",
                                      Path_from(result.sequence), result.plane)
                        ELSE saved
            /\ frames' = [frames EXCEPT ![Len(frames)].at = "loop",
                                        ![Len(frames)].index = @ + 1]
            /\ result' = NoResult
    /\ seen' = seen \ {Last(stack)}
    /\ stack' = Pop(stack)
    /\ UNCHANGED <<pureVars, pc, pruneVars, graphVars, roots, cache, matched>>

\* a loop of build that goes to the next key without popping the source
TraceReturnUnpopped ==
    /\ pc = "trace"
    /\ frames = <<>>
    /\ result.kind # "None"
    /\ result' = NoResult
    /\ roots' = Tail(roots)
    /\ pc' = IF Tail(roots) = <<>> THEN "done" ELSE "trace"
    /\ UNCHANGED <<pureVars, pruneVars, graphVars, cache, paths, stack, seen, frames,
                   matched, saved>>

\* a loop of build that pops the source and takes the same key again
TraceRetry ==
    /\ pc = "trace"
    /\ frames = <<>>
    /\ result.kind # "None"
    /\ result' = NoResult
    /\ seen' = seen \ {Last(stack)}
    /\ stack' = Pop(stack)
    /\ UNCHANGED <<pureVars, pc, pruneVars, graphVars, roots, cache, paths, frames,
                   matched, saved>>

\* build(): traverse has returned to the loop of build, which pops the
\* source and goes to the next key, or returns `paths`
TraceReturn ==
    /\ pc = "trace"
    /\ frames = <<>>
    /\ result.kind # "None"
    /\ result' = NoResult
    /\ seen' = seen \ {Last(stack)}
    /\ stack' = Pop(stack)
    /\ roots' = Tail(roots)
    /\ pc' = IF Tail(roots) = <<>> THEN "done" ELSE "trace"
    /\ UNCHANGED <<pureVars, pruneVars, graphVars, cache, paths, frames, matched, saved>>

\* the vertex sets of a list of Paths
VertexSets(list) == {list[i].set : i \in 1..Len(list)}

\* The pipeline is run a second time on the same lines: the hash-based
\* collections are iterated in an order of their own in each run.
Rerun ==
    /\ pc = "done"
    /\ run = 1
    /\ run' = 2
    /\ keep' = FALSE
    /\ previous' = VertexSets(paths)
    /\ pc' = "insert"
    /\ lines' = connections
    /\ fed' = 0
    /\ adjacencies' = NoAdjacencies
    /\ leaves' = {}
    /\ todo' = {}
    /\ updated' = {}
    /\ rounds' = 0
    /\ pending' = {}
    /\ intersections' = NoIntersections
    /\ undefined' = NoIntersections
    /\ graph' = NoIntersections
    /\ roots' = <<>>
    /\ cache' = [t \in {} |-> <<>>]
    /\ paths' = <<>>
    /\ stack' = <<>>
    /\ seen' = {}
    /\ frames' = <<>>
    /\ result' = NoResult
    /\ matched' = NoMatch
    /\ saved' = NoSave
    /\ UNCHANGED <<connections, first, orientVars, filterVars, equalVars, unitVars>>

\* A second PathBuilder is built from the same PathGraph and keeps one cache
\* for all the root connections of its build.
Retrace ==
    /\ pc = "done"
    /\ run = 1
    /\ run' = 2
    /\ keep' = TRUE
    /\ previous' = VertexSets(paths)
    /\ pc' = "built"
    /\ roots' = <<>>
    /\ cache' = [t \in {} |-> <<>>]
    /\ paths' = <<>>
    /\ stack' = <<>>
    /\ seen' = {}
    /\ frames' = <<>>
    /\ result' = NoResult
    /\ matched' = NoMatch
    /\ saved' = NoSave
    /\ UNCHANGED <<pruneVars, graphVars, orientVars, filterVars, equalVars, unitVars>>

-----------------------------------------------------------------------------
(* SpecPrune: PathGraphBuilder::from on every list of at most MaxSegments   *)
(* connections between the points of PrunePoints, a connection from a point *)
(* to itself included, followed by a second run of from() on the edges of   *)
(* the adjacencies the first run returned.                                  *)

PrunePoints == {<<0, 0, 0>>, <<1, 0, 0>>, <<1, 1, 0>>, <<0, 1, 0>>, <<0, 0, 1>>}

NotRun == [p \in {<<9, 9, 9>>} |-> {}]

InitPrune ==
    /\ pc = "insert"
    /\ connections = <<>>
    /\ lines = <<>>
    /\ fed = 0
    /\ adjacencies = NoAdjacencies
    /\ leaves = {}
    /\ todo = {}
    /\ updated = {}
    /\ rounds = 0
    /\ first = NotRun
    /\ InitGraph
    /\ InitTrace
    /\ InitPure

\* the caller's list holds one more connection (u, v), which from() reads
Receive(u, v) ==
    /\ pc = "insert"
    /\ first = NotRun
    /\ lines = <<>>
    /\ fed < MaxSegments
    /\ adjacencies' = Insert(adjacencies, u, v)
    /\ fed' = fed + 1
    /\ UNCHANGED <<pureVars, pc, connections, lines, leaves, todo, updated, rounds, first,
                   graphVars, traceVars>>

\* from() has returned: its adjacencies are kept and their edges are the
\* connections of a second run.
Refeed ==
    /\ pc = "pruned"
    /\ first = NotRun
    /\ first' = adjacencies
    /\ lines' = SeqOf(Edges(adjacencies))
    /\ adjacencies' = NoAdjacencies
    /\ fed' = 0
    /\ leaves' = {}
    /\ todo' = {}
    /\ updated' = {}
    /\ rounds' = 0
    /\ pc' = "insert"
    /\ UNCHANGED <<pureVars, connections, graphVars, traceVars>>

NextPrune ==
    \/ \E u \in PrunePoints, v \in PrunePoints : Receive(u, v)
    \/ InsertConnection
    \/ CollectLeaves
    \/ \E leaf \in PrunePoints : PruneLeaf(leaf)
    \/ NextRound
    \/ Refeed

SpecPrune == InitPrune /\ [][NextPrune]_vars

-----------------------------------------------------------------------------
(* Spec: the pipeline of the tests of lib.rs,                               *)
(*   PathGraphBuilder::from(&lines, EPSILON).build()                        *)
(*   PathBuilder::from(&graph).build()                                      *)
(* on the two wireframes of the tests and on further small wireframes.      *)

\* tests::example_two_planes: two quadrilateral faces on two planes that
\* meet along the base line from (0,0,0) to (7,0,0)
ExampleTwoPlanes ==
    << << <<0, 0, 0>>,   <<7, 0, 0>> >>,
       << <<7, 0, 0>>,   <<10, 0, 0>> >>,
       << <<0, 0, 0>>,   <<0, 25, 15>> >>,
       << <<10, 0, 0>>,  <<10, 25, 15>> >>,
       << <<0, 25, 15>>, <<10, 25, 15>> >>,
       << <<0, 0, 0>>,   <<0, 5, -5>> >>,
       << <<7, 0, 0>>,   <<7, 5, -5>> >>,
       << <<0, 5, -5>>,  <<7, 5, -5>> >> >>

\* tests::example_one_plane_with_dead_ends: the same without the last line
ExampleOnePlaneWithDeadEnds == SubSeq(ExampleTwoPlanes, 1, 7)

\* a non-convex hexagon on the plane z = 0
Hexagon ==
    << << <<0, 0, 0>>, <<2, 0, 0>> >>,
       << <<2, 0, 0>>, <<2, 1, 0>> >>,
       << <<2, 1, 0>>, <<1, 1, 0>> >>,
       << <<1, 1, 0>>, <<1, 2, 0>> >>,
       << <<1, 2, 0>>, <<0, 2, 0>> >>,
       << <<0, 2, 0>>, <<0, 0, 0>> >> >>

\* two triangles on the plane z = 0 that share the point (1,1,0)
TwoTriangles ==
    << << <<0, 0, 0>>, <<2, 0, 0>> >>,
       << <<2, 0, 0>>, <<1, 1, 0>> >>,
       << <<1, 1, 0>>, <<0, 0, 0>> >>,
       << <<1, 1, 0>>, <<3, 2, 0>> >>,
       << <<3, 2, 0>>, <<0, 2, 0>> >>,
       << <<0, 2, 0>>, <<1, 1, 0>> >> >>

\* a square on the vertical plane x = 0, with a dead end
VerticalSquare ==
    << << <<0, 0, 0>>, <<0, 1, 0>> >>,
       << <<0, 1, 0>>, <<0, 1, 1>> >>,
       << <<0, 1, 1>>, <<0, 0, 1>> >>,
       << <<0, 0, 1>>, <<0, 0, 0>> >>,
       << <<0, 0, 0>>, <<1, 0, 0>> >> >>

\* a quadrilateral that is not flat, close to the vertical plane x = 0: the
\* normals at its corners are parallel within epsilon only
SkewWall ==
    << << <<0, 0, 0>>,   <<0, 20, 0>> >>,
       << <<0, 20, 0>>,  <<1, 20, 20>> >>,
       << <<1, 20, 20>>, <<0, 0, 20>> >>,
       << <<0, 0, 20>>,  <<0, 0, 0>> >> >>

\* a triangle with a zero-length segment at one of its corners
DegenerateTriangle ==
    << << <<0, 0, 0>>, <<2, 0, 0>> >>,
       << <<2, 0, 0>>, <<1, 1, 0>> >>,
       << <<1, 1, 0>>, <<0, 0, 0>> >>,
       << <<0, 0, 0>>, <<0, 0, 0>> >> >>

\* two triangles on the line from (0,0,0) to (0,10,0) whose planes are
\* within epsilon of each other: which of the two normals a junction
\* registers depends on the neighbour it visits first
Fan ==
    << << <<0, 0, 0>>,  <<0, 10, 0>> >>,
       << <<0, 10, 0>>, <<10, 5, 0>> >>,
       << <<10, 5, 0>>, <<0, 0, 0>> >>,
       << <<0, 10, 0>>, <<12, 5, 1>> >>,
       << <<12, 5, 1>>, <<0, 0, 0>> >> >>

\* a square with a second line from (0,0,0) along its side to (1,0,0): the
\* two connections leaving (0,0,0) in that direction have the same
\* projected angle, and min_by keeps the one visited first
Overlap ==
    << << <<0, 0, 0>>, <<2, 0, 0>> >>,
       << <<2, 0, 0>>, <<2, 2, 0>> >>,
       << <<2, 2, 0>>, <<0, 2, 0>> >>,
       << <<0, 2, 0>>, <<0, 0, 0>> >>,
       << <<0, 0, 0>>, <<1, 0, 0>> >>,
       << <<1, 0, 0>>, <<2, 2, 0>> >> >>

Wireframes ==
    {ExampleTwoPlanes, ExampleOnePlaneWithDeadEnds, Hexagon, TwoTriangles,
     VerticalSquare, SkewWall, DegenerateTriangle, Fan, Overlap}

Init ==
    /\ pc = "insert"
    /\ connections \in Wireframes
    /\ lines = connections
    /\ fed = 0
    /\ adjacencies = NoAdjacencies
    /\ leaves = {}
    /\ todo = {}
    /\ updated = {}
    /\ rounds = 0
    /\ first = NotRun
    /\ InitGraph
    /\ InitTrace
    /\ InitPure

Next ==
    \/ InsertConnection
    \/ CollectLeaves
    \/ \E leaf \in todo : PruneLeaf(leaf)
    \/ NextRound
    \/ EnterBuild
    \/ \E intersection \in pending : BuildJunction(intersection)
    \/ FinishBuild
    \/ EnterTrace
    \/ Rerun
    \/ Retrace
    \/ TraceRoot
    \/ TraverseEnter
    \/ TraverseLoop
    \/ TraverseResume
    \/ TraceReturn

Spec == Init /\ [][Next]_vars

\* ENABLED <<TraverseEnter>>_vars: the guard of TraverseEnter, every branch
\* of which changes `frames`
EnterEnabled == pc = "trace" /\ frames # <<>> /\ Top.at = "enter"

\* ENABLED <<TraverseResume>>_vars: the guard of TraverseResume, which pops
\* the stack
ResumeEnabled ==
    pc = "trace" /\ frames # <<>> /\ Top.at = "call" /\ result.kind # "None"

\* PathBuilder::build is one sequential computation: a statement of build
\* or of traverse that can be executed is executed.  Weak fairness of each
\* of its steps; for the two steps that call save it is written out.
SpecFair ==
    /\ Spec
    /\ WF_vars(TraceRoot)
    /\ WF_vars(TraverseLoop)
    /\ WF_vars(TraceReturn)
    /\ []<>(~EnterEnabled) \/ []<><<TraverseEnter>>_vars
    /\ []<>(~ResumeEnabled) \/ []<><<TraverseResume>>_vars

-----------------------------------------------------------------------------
(* SpecOrient: reverse_if_normal_is_negative applied again and again to a    *)
(* closed Path.  The operand is Path::from of every sequence of 3 to         *)
(* MaxVertices distinct points of OrientPoints: convex and non-convex loops, *)
(* loops that cross themselves, loops with three points on a line, in both   *)
(* directions and from every start vertex.                                   *)

OrientPoints ==
    {<<0, 0, 0>>, <<2, 0, 0>>, <<4, 0, 0>>, <<4, 4, 0>>, <<0, 4, 0>>, <<2, 1, 0>>}

\* Largest number of distinct vertices of an operand.
MaxVertices == 4

\* Number of successive applications of reverse_if_normal_is_negative.
MaxApplications == 2

Distinct(n) ==
    {s \in [1..n -> OrientPoints] : \A i, j \in 1..n : i # j => s[i] # s[j]}

ClosedPaths == {Path_from(s) : s \in UNION {Distinct(n) : n \in 3..MaxVertices}}

\* the pipeline is not run
Idle ==
    /\ connections = <<>>
    /\ lines = <<>>
    /\ fed = 0
    /\ adjacencies = NoAdjacencies
    /\ leaves = {}
    /\ todo = {}
    /\ updated = {}
    /\ rounds = 0
    /\ first = NotRun
    /\ InitGraph
    /\ InitTrace
    /\ FirstRun

InitOrient ==
    /\ pc = "orient"
    /\ Idle
    /\ operand \in ClosedPaths
    /\ oriented = <<>>
    /\ polygonal = <<>>
    /\ NoFilter
    /\ NoEquality
    /\ NoUnit

\* what the next application is applied to
Subject(results) == IF results = <<>> THEN operand ELSE Last(results)

\* path.reverse_if_normal_is_negative() of path.rs
OrientPath ==
    /\ pc = "orient"
    /\ Len(oriented) < MaxApplications
    /\ oriented' = Append(oriented,
                          Path_reverse_if_normal_is_negative(Subject(oriented)))
    /\ UNCHANGED <<pc, runVars, pruneVars, graphVars, traceVars, operand, polygonal,
                   filterVars, equalVars, unitVars>>

\* path.reverse_if_normal_is_negative(epsilon) of polygon.rs
OrientPolygonalPath ==
    /\ pc = "orient"
    /\ Len(polygonal) < MaxApplications
    /\ polygonal' = Append(polygonal,
                           PolygonalPath_reverse_if_normal_is_negative(Subject(polygonal)))
    /\ UNCHANGED <<pc, runVars, pruneVars, graphVars, traceVars, operand, oriented,
                   filterVars, equalVars, unitVars>>

NextOrient ==
    \/ OrientPath
    \/ OrientPolygonalPath

SpecOrient == InitOrient /\ [][NextOrient]_vars

-----------------------------------------------------------------------------
(* The fundamental-polygon filter: Polygon::filter_fundamental_polygons_     *)
(* inefficient, which tests::f calls and whose code is not part of the       *)
(* sources.  It is modelled on its description: a polygon is its closed      *)
(* vertex sequence, the bounding box and the ray casting use x and y.        *)

\* bounding box: min and max of x and y over the vertices
BoundingBox(polygon) ==
    LET xs == {polygon[i][1] : i \in 1..Len(polygon)}
        ys == {polygon[i][2] : i \in 1..Len(polygon)}
    IN  [xmin |-> CHOOSE x \in xs : \A o \in xs : x <= o,
         xmax |-> CHOOSE x \in xs : \A o \in xs : x >= o,
         ymin |-> CHOOSE y \in ys : \A o \in ys : y <= o,
         ymax |-> CHOOSE y \in ys : \A o \in ys : y >= o]

\* a containment of boxes that asks for a margin on every side
BoxStrictlyInside(inner, outer) ==
    /\ outer.xmin < inner.xmin /\ inner.xmax < outer.xmax
    /\ outer.ymin < inner.ymin /\ inner.ymax < outer.ymax

\* the box `inner` is inside the box `outer`
BoxInside(inner, outer) ==
    /\ outer.xmin <= inner.xmin /\ inner.xmax <= outer.xmax
    /\ outer.ymin <= inner.ymin /\ inner.ymax <= outer.ymax

Min(a, b) == IF a <= b THEN a ELSE b

Max(a, b) == IF a >= b THEN a ELSE b

\* the point is on the edge from a to b
OnEdge(point, a, b) ==
    /\ (b[1] - a[1]) * (point[2] - a[2]) = (b[2] - a[2]) * (point[1] - a[1])
    /\ Min(a[1], b[1]) <= point[1] /\ point[1] <= Max(a[1], b[1])
    /\ Min(a[2], b[2]) <= point[2] /\ point[2] <= Max(a[2], b[2])

\* the horizontal ray from the point towards greater x crosses the edge
\* from a to b
RayCrosses(point, a, b) ==
    /\ (a[2] > point[2]) # (b[2] > point[2])
    /\ IF b[2] > a[2]
       THEN (point[1] - a[1]) * (b[2] - a[2]) < (point[2] - a[2]) * (b[1] - a[1])
       ELSE (point[1] - a[1]) * (b[2] - a[2]) > (point[2] - a[2]) * (b[1] - a[1])

\* point in polygon by ray casting: on the boundary, or an odd number of
\* crossings
PointInPolygon(point, polygon) ==
    LET edges == 1..(Len(polygon) - 1) IN
    \/ \E i \in edges : OnEdge(point, polygon[i], polygon[i + 1])
    \/ Cardinality({i \in edges :
                       RayCrosses(point, polygon[i], polygon[i + 1])}) % 2 = 1

\* (a): q contains p
PolygonContains(q, p) ==
    /\ BoxInside(BoundingBox(p), BoundingBox(q))
    /\ \A i \in 1..Len(p) : PointInPolygon(p[i], q)

DirectedEdges(polygon) ==
    {<<polygon[i], polygon[i + 1]>> : i \in 1..(Len(polygon) - 1)}

\* (b): p and q share a directed edge
SharesDirectedEdge(p, q) == DirectedEdges(p) \cap DirectedEdges(q) # {}

filter_fundamental_polygons_inefficient(polygons) ==
    {p \in polygons :
        ~ \E q \in polygons \ {p} : PolygonContains(q, p) /\ SharesDirectedEdge(p, q)}

(* SpecFilter: the filter on every subset of Polygons: a square, the two   *)
(* triangles its diagonal cuts it into, a triangle inside it that touches  *)
(* none of its edges, the square next to it, the square with one more      *)
(* vertex in the middle of an edge, and the square with a notch.           *)

Closed(sequence) == Path_from(sequence).sequence

Square == Closed(<< <<0, 0, 0>>, <<4, 0, 0>>, <<4, 4, 0>>, <<0, 4, 0>> >>)

LowerTriangle == Closed(<< <<0, 0, 0>>, <<4, 0, 0>>, <<4, 4, 0>> >>)

UpperTriangle == Closed(<< <<0, 0, 0>>, <<4, 4, 0>>, <<0, 4, 0>> >>)

InnerTriangle == Closed(<< <<2, 1, 0>>, <<3, 1, 0>>, <<3, 2, 0>> >>)

NextSquare == Closed(<< <<4, 0, 0>>, <<8, 0, 0>>, <<8, 4, 0>>, <<4, 4, 0>> >>)

SplitSquare ==
    Closed(<< <<0, 0, 0>>, <<2, 0, 0>>, <<4, 0, 0>>, <<4, 4, 0>>, <<0, 4, 0>> >>)

NotchedSquare ==
    Closed(<< <<0, 0, 0>>, <<4, 0, 0>>, <<4, 4, 0>>, <<2, 2, 0>>, <<0, 4, 0>> >>)

Polygons ==
    {Square, LowerTriangle, UpperTriangle, InnerTriangle, NextSquare,
     SplitSquare, NotchedSquare}

InitFilter ==
    /\ pc = "filter"
    /\ Idle
    /\ NoOrient
    /\ NoEquality
    /\ NoUnit
    /\ unfiltered \in SUBSET Polygons
    /\ filtered = NotFiltered

Filter ==
    /\ pc = "filter"
    /\ filtered = NotFiltered
    /\ filtered' = filter_fundamental_polygons_inefficient(unfiltered)
    /\ UNCHANGED <<pc, runVars, pruneVars, graphVars, traceVars, orientVars, equalVars,
                   unitVars, unfiltered>>

NextFilter == Filter

SpecFilter == InitFilter /\ [][NextFilter]_vars

-----------------------------------------------------------------------------
(* Coordinates as f64 bit patterns.  In the pipeline above a coordinate is  *)
(* an integer, and equality, ordering and hashing of Coordinates agree on   *)
(* integers.  Here an f64 is its sign bit and its magnitude, so that +0.0   *)
(* and -0.0 are two bit patterns of one value.                              *)

PlusZero == [negative |-> FALSE, magnitude |-> 0]

MinusZero == [negative |-> TRUE, magnitude |-> 0]

PlusOne == [negative |-> FALSE, magnitude |-> 1]

\* the value ==, < and > of f64 compare
Value(f) == IF f.negative THEN -f.magnitude ELSE f.magnitude

\* f64::to_bits
to_bits(f) == <<IF f.negative THEN 1 ELSE 0, f.magnitude>>

Values(a) == <<Value(a[1]), Value(a[2]), Value(a[3])>>

\* impl PartialEq for Coordinates
Coordinates_eq(a, b) ==
    Value(a[1]) = Value(b[1]) /\ Value(a[2]) = Value(b[2]) /\ Value(a[3]) = Value(b[3])

\* impl Ord for Coordinates
Coordinates_cmp(a, b) == cmp(Values(a), Values(b))

\* impl Hash for Coordinates: what it feeds the hasher
Coordinates_hash(a) == <<to_bits(a[1]), to_bits(a[2]), to_bits(a[3])>>

\* BTreeSet<Coordinates>, as the ascending sequence of its elements.
\* insert: an element that compares Equal to one of the set is not added
BTreeSet_insert(set, c) ==
    IF \E k \in 1..Len(set) : Coordinates_cmp(set[k], c) = 0 THEN set
    ELSE LET below == Cardinality({k \in 1..Len(set) : Coordinates_cmp(set[k], c) < 0})
         IN  SubSeq(set, 1, below) \o <<c>> \o SubSeq(set, below + 1, Len(set))

\* BTreeSet ==: same length, and the elements == one by one
BTreeSet_eq(s, t) ==
    /\ Len(s) = Len(t)
    /\ \A k \in 1..Len(s) : Coordinates_eq(s[k], t[k])

\* Path::push
BitsPath_push(path, coordinates) ==
    [sequence |-> Append(path.sequence, coordinates),
     set      |-> BTreeSet_insert(path.set, coordinates)]

RECURSIVE BitsPushAll(_, _)
BitsPushAll(path, sequence) ==
    IF sequence = <<>> THEN path
    ELSE BitsPushAll(BitsPath_push(path, Head(sequence)), Tail(sequence))

\* Path::from
BitsPath_from(sequence) ==
    LET pushed == BitsPushAll([sequence |-> <<>>, set |-> <<>>], sequence) IN
    IF sequence = <<>> THEN pushed
    ELSE [pushed EXCEPT !.sequence = Append(pushed.sequence, sequence[1])]

\* impl PartialEq for Path
BitsPath_eq(p, q) == BTreeSet_eq(p.set, q.set)

\* impl Hash for Path: what it feeds the hasher
BitsPath_hash(p) == [k \in 1..Len(p.set) |-> Coordinates_hash(p.set[k])]

\* IndexSet::insert: the sets it may return.  An entry with the hash of
\* `path` that is == `path` is found for sure.  An entry that is == `path`
\* and has another hash is found when the table happens to compare the
\* two, which depends on the seed of the hasher.
IndexSet_insert(set, path) ==
    IF \E k \in 1..Len(set) :
          BitsPath_hash(set[k]) = BitsPath_hash(path) /\ BitsPath_eq(set[k], path)
    THEN {set}
    ELSE IF \E k \in 1..Len(set) : BitsPath_eq(set[k], path)
    THEN {set, Append(set, path)}
    ELSE {Append(set, path)}

(* SpecEquality: two Paths, each Path::from of three points of BitsPoints   *)
(* with different bit patterns, are compared and inserted in an IndexSet.   *)

BitsPoints ==
    {<<PlusZero, PlusZero, PlusZero>>, <<MinusZero, PlusZero, PlusZero>>,
     <<PlusOne, PlusZero, PlusZero>>, <<PlusZero, PlusOne, PlusZero>>}

BitsPaths ==
    {BitsPath_from(s) : s \in {t \in [1..3 -> BitsPoints] :
                                  \A i, j \in 1..3 : i # j => t[i] # t[j]}}

InitEquality ==
    /\ pc = "equality"
    /\ Idle
    /\ NoOrient
    /\ NoFilter
    /\ NoUnit
    /\ left \in BitsPaths
    /\ right \in BitsPaths
    /\ index = <<>>

\* paths.insert(left) on the empty set
InsertLeft ==
    /\ pc = "equality"
    /\ index = <<>>
    /\ index' \in IndexSet_insert(index, left)
    /\ UNCHANGED <<pc, runVars, pruneVars, graphVars, traceVars, orientVars, filterVars,
                   unitVars, left, right>>

\* paths.insert(right) after it
InsertRight ==
    /\ pc = "equality"
    /\ index = <<left>>
    /\ index' \in IndexSet_insert(index, right)
    /\ UNCHANGED <<pc, runVars, pruneVars, graphVars, traceVars, orientVars, filterVars,
                   unitVars, left, right>>

NextEquality ==
    \/ InsertLeft
    \/ InsertRight

SpecEquality == InitEquality /\ [][NextEquality]_vars

-----------------------------------------------------------------------------
(* SpecPlane: two plane matchers built by PlaneMatcher::between with the     *)
(* epsilon of the run, or undefined, are compared with == and matched        *)
(* against each other in both directions.  The vectors give normals that    *)
(* are equal, within epsilon of each other without being equal, just beyond *)
(* epsilon, and far apart.                                                   *)

PlaneVectors ==
    {<<1, 0, 0>>, <<0, 1, 0>>, <<0, 0, 1>>, <<0, 10, 1>>, <<0, 9, 1>>,
     <<1, 1, 0>>, <<2, 0, 0>>, <<0, -10, 1>>}

PlaneMatchers == {between(u, v) : u, v \in PlaneVectors}

InitPlane ==
    /\ pc = "plane"
    /\ Idle
    /\ NoOrient
    /\ NoFilter
    /\ NoEquality
    /\ lhs \in PlaneMatchers
    /\ rhs \in PlaneMatchers
    /\ comparison = NotCompared
    /\ NoNodes
    /\ NoCandidate

\* lhs == rhs, rhs == lhs, lhs.match_against(&rhs) and rhs.match_against(&lhs)
Compare ==
    /\ pc = "plane"
    /\ ~comparison.made
    /\ comparison' = [made     |-> TRUE,
                      eq       |-> is_same_as(lhs, rhs),
                      qe       |-> is_same_as(rhs, lhs),
                      forward  |-> match_against(lhs, rhs),
                      backward |-> match_against(rhs, lhs)]
    /\ UNCHANGED <<pc, runVars, pruneVars, graphVars, traceVars, orientVars, filterVars,
                   equalVars, nodeVars, validVars, lhs, rhs>>

NextPlane == Compare

SpecPlane == InitPlane /\ [][NextPlane]_vars

-----------------------------------------------------------------------------
(* SpecNodes: Points are looked up as keys of the adjacency HashMap, as      *)
(* PathGraphBuilder::from does with adjacencies.entry(u).  A coordinate is   *)
(* an f64 bit pattern.                                                       *)

\* Largest number of Points looked up.
MaxPoints == 3

\* HashMap::entry(point): the indexes of `map` the lookup may resolve to,
\* Len(map) + 1 standing for a vacant entry.  A key with the hash of `point`
\* that is == `point` is found for sure.  A key that is == `point` and has
\* another hash is found when the table happens to probe it, which depends
\* on the seed of the hasher and on the capacity of the table.
HashMap_entry(map, point) ==
    IF \E k \in 1..Len(map) :
          Coordinates_hash(map[k]) = Coordinates_hash(point) /\ Coordinates_eq(map[k], point)
    THEN {k \in 1..Len(map) :
             Coordinates_hash(map[k]) = Coordinates_hash(point) /\ Coordinates_eq(map[k], point)}
    ELSE {k \in 1..Len(map) : Coordinates_eq(map[k], point)} \cup {Len(map) + 1}

InitNodes ==
    /\ pc = "nodes"
    /\ Idle
    /\ NoOrient
    /\ NoFilter
    /\ NoEquality
    /\ NoComparison
    /\ points \in UNION {[1..n -> BitsPoints] : n \in 1..MaxPoints}
    /\ keys = <<>>
    /\ node = <<>>
    /\ NoCandidate

\* adjacencies.entry(point) for the next Point, inserted when vacant
LookUp ==
    /\ pc = "nodes"
    /\ Len(node) < Len(points)
    /\ \E k \in HashMap_entry(keys, points[Len(node) + 1]) :
          /\ node' = Append(node, k)
          /\ keys' = IF k > Len(keys) THEN Append(keys, points[Len(node) + 1]) ELSE keys
    /\ UNCHANGED <<pc, runVars, pruneVars, graphVars, traceVars, orientVars, filterVars,
                   equalVars, planeVars, validVars, points>>

NextNodes == LookUp

SpecNodes == InitNodes /\ [][NextNodes]_vars

-----------------------------------------------------------------------------
(* SpecValid: PathBuilder::save called with one candidate and one plane on   *)
(* a result set that is empty or holds one polygon.  The candidates are the  *)
(* empty Path, Paths that are not closed, and Path::from of 3 or 4 distinct  *)
(* points of one plane, no three of them on a line: convex and non-convex   *)
(* loops and loops that cross themselves, in both directions, on the plane  *)
(* z = 0 and on the vertical plane x = 0.  The plane is undefined, or the    *)
(* plane PlaneMatcher::between builds at one of the first two corners, or a  *)
(* plane tilted against it.  PathBuilder hands save a Path::from of its      *)
(* stack or of a Backtrack sequence, whose points are distinct.              *)

HorizontalPoints ==
    {<<0, 0, 0>>, <<4, 0, 0>>, <<4, 4, 0>>, <<0, 4, 0>>, <<2, 1, 0>>}

VerticalPoints ==
    {<<0, 0, 0>>, <<0, 4, 0>>, <<0, 4, 4>>, <<0, 0, 4>>}

\* Largest number of distinct points of a candidate.
MaxCorners == 4

DistinctOf(pool, n) ==
    {s \in [1..n -> pool] : \A i, j \in 1..n : i # j => s[i] # s[j]}

Loops ==
    UNION {DistinctOf(pool, n) : pool \in {HorizontalPoints, VerticalPoints},
                                 n \in 3..MaxCorners}

\* Paths whose sequence does not end where it starts
OpenPaths == {PushAll(Path_new, s, 1) : s \in Loops}

\* a plane tilted by more than epsilon against the plane z = 0
TiltedPlane == [defined |-> TRUE, normal |-> <<0, 1, 5>>]

\* the planes a closed candidate is presented with
PlanesOf(sequence) ==
    {UndefinedPlane,
     between(Edge(sequence, 1), Edge(sequence, 2)),
     between(Edge(sequence, 2), Edge(sequence, 3))}
    \cup (IF Range(sequence) \subseteq HorizontalPoints THEN {TiltedPlane} ELSE {})

\* a polygon saved earlier
Earlier == Path_from(<<<<0, 0, 4>>, <<4, 0, 4>>, <<4, 4, 4>>>>)

InitValid ==
    /\ pc = "save"
    /\ Idle
    /\ NoOrient
    /\ NoFilter
    /\ NoEquality
    /\ NoComparison
    /\ NoNodes
    /\ \/ /\ candidate \in {Path_new} \cup OpenPaths
          /\ given \in {UndefinedPlane, [defined |-> TRUE, normal |-> <<0, 0, 1>>]}
       \/ \E s \in Loops :
             /\ candidate = Path_from(s)
             /\ given \in PlanesOf(Path_from(s).sequence)
    /\ verdict = NotSaved

\* self.save(candidate, &given)
Save(before) ==
    /\ pc = "save"
    /\ ~verdict.made
    /\ verdict' =
          [made   |-> TRUE,
           total  |-> IF candidate.sequence = <<>>
                         \/ candidate.sequence[1] # Last(candidate.sequence)
                      THEN NoTotal
                      ELSE sum_interior_angles_on(candidate.sequence, given),
           valid  |-> is_valid_on(candidate, given),
           before |-> before,
           after  |-> save(before, candidate, given)]
    /\ UNCHANGED <<pc, runVars, pruneVars, graphVars, traceVars, orientVars, filterVars,
                   equalVars, planeVars, nodeVars, candidate, given>>

NextValid == \E before \in {<<>>, <<Earlier>>} : Save(before)

SpecValid == InitValid /\ [][NextValid]_vars

-----------------------------------------------------------------------------
(* SpecBuild: PathGraphBuilder::from(&lines, EPSILON).build() alone, on a    *)
(* wireframe with dead ends and on three triangles that share a line.  The  *)
(* planes of the outer two triangles are further than epsilon from each     *)
(* other, and the plane of the middle one is within epsilon of both.        *)

FanOfThree ==
    << << <<0, 0, 0>>,  <<0, 10, 0>> >>,
       << <<0, 10, 0>>, <<10, 5, 0>> >>,
       << <<10, 5, 0>>, <<0, 0, 0>> >>,
       << <<0, 10, 0>>, <<12, 5, 1>> >>,
       << <<12, 5, 1>>, <<0, 0, 0>> >>,
       << <<0, 10, 0>>, <<6, 5, 1>> >>,
       << <<6, 5, 1>>,  <<0, 0, 0>> >> >>

\* two triangles with the corner (0,10,0) whose bases continue the line
\* from (-10,0,0) to (0,0,0): the base to (10,0,0) lies on that line and
\* the base to (20,1,0) is within epsilon of it
Forked ==
    << << <<-10, 0, 0>>, <<0, 0, 0>> >>,
       << <<0, 0, 0>>,   <<10, 0, 0>> >>,
       << <<0, 0, 0>>,   <<20, 1, 0>> >>,
       << <<-10, 0, 0>>, <<0, 10, 0>> >>,
       << <<10, 0, 0>>,  <<0, 10, 0>> >>,
       << <<20, 1, 0>>,  <<0, 10, 0>> >> >>

InitBuild ==
    /\ pc = "insert"
    /\ connections \in {FanOfThree, ExampleOnePlaneWithDeadEnds, Forked}
    /\ lines = connections
    /\ fed = 0
    /\ adjacencies = NoAdjacencies
    /\ leaves = {}
    /\ todo = {}
    /\ updated = {}
    /\ rounds = 0
    /\ first = NotRun
    /\ InitGraph
    /\ InitTrace
    /\ InitPure

NextBuild ==
    \/ InsertConnection
    \/ CollectLeaves
    \/ \E leaf \in todo : PruneLeaf(leaf)
    \/ NextRound
    \/ EnterBuild
    \/ \E intersection \in pending : BuildJunction(intersection)
    \/ FinishBuild

SpecBuild == InitBuild /\ [][NextBuild]_vars

-----------------------------------------------------------------------------
(* Claims on PathGraphBuilder::from, checked under SpecPrune *)

\* C1: once from() has run, every point that is still a key of the
\* adjacency mapping has at least 2 neighbours (and from() did not panic).
C1_NoDeadEnds ==
    /\ pc # "panic"
    /\ pc = "pruned" =>
          \A p \in DOMAIN adjacencies : Cardinality(adjacencies[p]) >= 2

\* a run that pruned dead ends over two rounds and kept a cycle
C1_Witness ==
    /\ pc = "pruned"
    /\ first = NotRun
    /\ rounds >= 2
    /\ Cardinality(DOMAIN adjacencies) = 3

\* C2: a second run of from() on the edges of the pruned adjacencies finds
\* no leaf, removes nothing and returns the identical adjacency mapping.
C2_PruningIdempotent ==
    (pc = "pruned" /\ first # NotRun) => (adjacencies = first /\ rounds = 0)

\* a second run has returned on the edges of a non-empty pruned graph that
\* the first run had to prune
C2_Witness ==
    /\ pc = "pruned"
    /\ first # NotRun
    /\ DOMAIN first # {}
    /\ fed > 0
    /\ Cardinality(DOMAIN first) < 5

-----------------------------------------------------------------------------
(* Claims on PathBuilder::build, checked under Spec *)

\* C3: every polygon of the set PathBuilder::build returns is a closed
\* vertex sequence: it is not empty and its first point is its last point,
\* whether save was called at a Closure or at a Backtrack, and after the
\* orientation was normalised.
C3_ClosedSequences ==
    /\ \A i \in 1..Len(paths) :
          /\ paths[i].sequence # <<>>
          /\ paths[i].sequence[1] = Last(paths[i].sequence)
    /\ saved.inserted =>
          /\ saved.out.sequence # <<>>
          /\ saved.out.sequence[1] = Last(saved.out.sequence)

\* build has returned a set that holds a polygon saved at a Closure and a
\* polygon saved at a Backtrack
C3_Witness ==
    /\ pc = "done"
    /\ saved.inserts = {"Closure", "Backtrack"}
    /\ Len(paths) >= 2

\* C4: every polygon of the set PathBuilder::build returns winds upwards:
\* the signed area of its projection on the xy plane is not negative, for
\* convex and non-convex loops alike.
C4_UpwardWinding ==
    \A i \in 1..Len(paths) : SignedArea2(paths[i].sequence) >= 0

\* build has returned the non-convex hexagon, traced clockwise and reversed
C4_Witness ==
    /\ pc = "done"
    /\ connections = Hexagon
    /\ Len(paths) = 1
    /\ SignedArea2(paths[1].sequence) > 0
    /\ \E i \in 1..(Len(paths[1].sequence) - 2) : NormalZ(paths[1].sequence, i) < 0

-----------------------------------------------------------------------------
(* Claim on Path::reverse_if_normal_is_negative, checked under SpecOrient *)

\* C5: the orientation is idempotent: reverse_if_normal_is_negative applied
\* to its own result returns the vertex order of that result, for every
\* closed sequence, convex or not.
C5_Idempotent ==
    /\ Len(oriented) = 2 => oriented[2].sequence = oriented[1].sequence
    /\ Len(polygonal) = 2 => polygonal[2].sequence = polygonal[1].sequence

-----------------------------------------------------------------------------
(* Claim on the equality and the hash of Path, checked under SpecEquality *)

\* C6: two Paths are equal, and hash alike, exactly when their vertex sets
\* are equal, whatever the start vertex and the direction of their
\* sequences; so that an IndexSet never holds two Paths of one vertex set.
C6_EqualByVertexSet ==
    LET SameVertices(p, q) ==
            /\ \A a \in Range(p.sequence) : \E b \in Range(q.sequence) :
                  Coordinates_eq(a, b)
            /\ \A b \in Range(q.sequence) : \E a \in Range(p.sequence) :
                  Coordinates_eq(a, b)
    IN  index # <<>> =>
          /\ BitsPath_eq(left, right) <=> SameVertices(left, right)
          /\ (BitsPath_hash(left) = BitsPath_hash(right)) <=> SameVertices(left, right)
          /\ \A i, j \in 1..Len(index) :
                i # j => ~SameVertices(index[i], index[j])

-----------------------------------------------------------------------------
(* Claim on the fundamental-polygon filter, checked under SpecFilter *)

-----------------------------------------------------------------------------
(* Claims on the pipeline, checked under Spec *)

\* C8: scenario A: on the 8 segments of example_two_planes, with epsilon
\* 0.1, from(), build() and PathBuilder::build return exactly 2 polygons,
\* one per face.
C8_TwoPlanes ==
    (pc = "done" /\ connections = ExampleTwoPlanes) =>
        /\ Len(paths) = 2
        /\ {paths[1].set, paths[2].set} =
              {{<<0, 0, 0>>, <<7, 0, 0>>, <<7, 5, -5>>, <<0, 5, -5>>},
               {<<0, 0, 0>>, <<7, 0, 0>>, <<10, 0, 0>>, <<10, 25, 15>>, <<0, 25, 15>>}}

C8_Witness ==
    /\ pc = "done"
    /\ connections = ExampleTwoPlanes
    /\ Len(paths) = 2
    /\ rounds = 0

\* C9: scenario B: without the segment that closes one face, what is left
\* of that face is dead ends, and the pipeline returns exactly 1 polygon:
\* the face that is still closed.
C9_OnePlaneWithDeadEnds ==
    (pc = "done" /\ connections = ExampleOnePlaneWithDeadEnds) =>
        /\ Len(paths) = 1
        /\ paths[1].set =
              {<<0, 0, 0>>, <<7, 0, 0>>, <<10, 0, 0>>, <<10, 25, 15>>, <<0, 25, 15>>}
        /\ DOMAIN adjacencies = paths[1].set

C9_Witness ==
    /\ pc = "done"
    /\ connections = ExampleOnePlaneWithDeadEnds
    /\ Len(paths) = 1
    /\ rounds >= 1
    /\ <<7, 5, -5>> \notin DOMAIN adjacencies

-----------------------------------------------------------------------------
(* Claims on PlaneMatcher, checked under SpecPlane *)

\* C11: for two plane matchers of one epsilon, lhs == rhs holds exactly when
\* rhs == lhs holds, and lhs.match_against(rhs) returns a plane exactly when
\* rhs.match_against(lhs) returns one.
C11_Symmetric ==
    comparison.made =>
        /\ comparison.eq = comparison.qe
        /\ comparison.forward.some = comparison.backward.some

\* two matchers with different normals within epsilon of each other have
\* been found equal and have matched
C11_Witness ==
    /\ comparison.made
    /\ lhs.defined /\ rhs.defined
    /\ lhs.normal # rhs.normal
    /\ comparison.eq /\ comparison.qe
    /\ comparison.forward.some /\ comparison.backward.some

-----------------------------------------------------------------------------
(* Claims on Coordinates as graph keys, checked under SpecNodes *)

\* C12: two Points looked up in the adjacency map are the same node exactly
\* when their coordinates are bit-identical, and ==, Ordering::Equal and
\* equality of what is hashed all hold exactly then.
C12_BitIdentity ==
    \A i, j \in 1..Len(node) :
        LET a == points[i]
            b == points[j]
        IN  /\ (node[i] = node[j]) <=> (a = b)
            /\ Coordinates_eq(a, b) <=> (a = b)
            /\ (Coordinates_cmp(a, b) = 0) <=> (a = b)
            /\ (Coordinates_hash(a) = Coordinates_hash(b)) <=> (a = b)

-----------------------------------------------------------------------------
(* Claims on degenerate connections, checked under Spec *)

\* C13: whatever the segments, a zero-length segment at a point that
\* survives the pruning included, the pipeline never panics: build() of
\* PathGraphBuilder and build() of PathBuilder run to their end.
C13_NeverFatal == pc # "panic"

-----------------------------------------------------------------------------
(* Claims on PathBuilder::save and Path::is_valid_on, checked under SpecValid *)

\* C14: a call of save with a candidate that is not valid on the given plane
\* leaves `paths` as it was and raises no error, and a candidate presented
\* with an undefined plane is never added.
C14_InvalidDiscarded ==
    verdict.made =>
        /\ pc # "panic"
        /\ ~verdict.valid => verdict.after = verdict.before
        /\ is_undefined(given) => verdict.after = verdict.before

\* a closed candidate whose angle sum on a defined plane is out of tolerance
\* has been handed to save, and the set that held a polygon is unchanged
C14_Witness ==
    /\ verdict.made
    /\ candidate.sequence # <<>>
    /\ candidate.sequence[1] = Last(candidate.sequence)
    /\ given.defined
    /\ verdict.total.some
    /\ ~verdict.valid
    /\ verdict.before = <<Earlier>>
    /\ verdict.after = <<Earlier>>

-----------------------------------------------------------------------------
(* Claims on the termination of PathBuilder::build, checked under SpecFair *)

\* C15: every call of traverse in progress eventually returns to the loop
\* of build, and build, once it has started on the keys of the graph,
\* eventually returns `paths`.
C15_Terminates ==
    /\ (frames # <<>>) ~> (frames = <<>>)
    /\ (pc = "trace") ~> (pc = "done")

\* build has returned after traverse has filled and used its cache on a
\* graph with a junction of more than two connections
C15_Witness ==
    /\ pc = "done"
    /\ connections = TwoTriangles
    /\ DOMAIN cache # {}
    /\ roots = <<>>
    /\ frames = <<>>

-----------------------------------------------------------------------------
(* Claims on the cache and on the iteration orders, checked under Spec *)

\* C16: on the same plane-annotated graph, a build that keeps one cache for
\* all its root connections returns polygons of the same vertex sets as the
\* build that clears the cache before each root connection.
C16_ClearingGranularity ==
    (pc = "done" /\ run = 2 /\ keep) => VertexSets(paths) = previous

-----------------------------------------------------------------------------
(* Claims on the angle sum, checked under SpecValid *)

\* a closed sequence of five points whose consecutive edges, the closing
\* pair included, are at right angles
RightAngled(sequence) ==
    /\ Len(sequence) = 5
    /\ sequence[1] = sequence[5]
    /\ \A k \in 1..3 : dot(Edge(sequence, k), Edge(sequence, k + 1)) = 0
    /\ dot(Edge(sequence, 4), Edge(sequence, 1)) = 0

\* the sum S is exactly (n - 3) * pi: with n - 1 angles of pi + atan2(..),
\* 2 * pi * q + arg(w) = -2 * pi
SumIsExpected(total) ==
    total.some /\ total.sum.q = -1 /\ total.sum.w = <<1, 0>>

\* C18: is_valid_on rejects an empty sequence and one whose first and last
\* points differ; otherwise it accepts exactly when every projection
\* succeeds and the sum S of the clockwise angles is within the tolerance
\* of (n - 3) * pi; and on the plane of its own corner every quadrilateral
\* with four right angles has S = 2 * pi and is accepted.
C18_AngleSum ==
    verdict.made =>
        LET sequence == candidate.sequence IN
        /\ (sequence = <<>> \/ sequence[1] # Last(sequence)) => ~verdict.valid
        /\ (sequence # <<>> /\ sequence[1] = Last(sequence)) =>
              (verdict.valid <=>
                  /\ verdict.total.some
                  /\ verdict.total.sum.q = -1
                  /\ ArgWithin(verdict.total.sum.w, norm2(given.normal)))
        /\ (RightAngled(sequence)
              /\ given = between(Edge(sequence, 1), Edge(sequence, 2))) =>
              (SumIsExpected(verdict.total) /\ verdict.valid)


-----------------------------------------------------------------------------
(* Claims on the marking of the pruning, checked under SpecPrune *)

\* a step of the pruning loop that removes `leaf` from the neighbours of its
\* sole neighbour `adjacent`, another point, and then from the mapping
RemovesLeaf(leaf, adjacent) ==
    /\ pc = "prune"
    /\ leaf \in todo
    /\ leaf \notin todo'
    /\ leaf \in DOMAIN adjacencies
    /\ adjacencies[leaf] = {adjacent}
    /\ adjacent # leaf
    /\ adjacent \in DOMAIN adjacencies
    /\ leaf \in adjacencies[adjacent]
    /\ adjacencies' = Remove([adjacencies EXCEPT ![adjacent] = @ \ {leaf}], leaf)

\* C19 as the code has it: the neighbour is marked for the next round
\* exactly when it has at most 2 neighbours before the leaf is removed from
\* them, that is when its new degree is <= 1.
C19_MarkedByOldDegree ==
    [][\A leaf, adjacent \in PrunePoints :
          RemovesLeaf(leaf, adjacent) =>
              /\ (adjacent \in updated') <=> (Cardinality(adjacencies[adjacent]) <= 2)
              /\ (adjacent \in updated') <=> (Cardinality(adjacencies'[adjacent]) <= 1)]_vars

\* C19 as stated: the neighbour is marked for the next round exactly when
\* its degree after the removal is <= 2.
C19_MarkedByNewDegree ==
    [][\A leaf, adjacent \in PrunePoints :
          RemovesLeaf(leaf, adjacent) =>
              ((adjacent \in updated') <=> (Cardinality(adjacencies'[adjacent]) <= 2))]_vars

\* the only leaf of a triangle with one more connection has been removed in
\* the first round: its neighbour is left with two neighbours and is not
\* marked
C19_Witness ==
    /\ pc = "prune"
    /\ rounds = 0
    /\ fed = 4
    /\ Cardinality(leaves) = 1
    /\ todo = {}
    /\ updated = {}
    /\ leaves \cap DOMAIN adjacencies = {}
    /\ Cardinality(DOMAIN adjacencies) = 3
    /\ \A p \in DOMAIN adjacencies : Cardinality(adjacencies[p]) = 2


-----------------------------------------------------------------------------
(* Claims on the buckets of PathGraphBuilder::build, checked under SpecBuild *)

\* the buckets registered for `incident` that hold `adjacent` as a successor
BucketsOf(incident, adjacent) ==
    {k \in 1..Len(intersections[incident]) :
        \E i \in 1..Len(intersections[incident][k].successors) :
            intersections[incident][k].successors[i].successor = adjacent}

\* C20: once a junction is built, every (incident, adjacent) pair of it
\* whose plane is defined has `adjacent` as a successor in exactly one of
\* the buckets registered for `incident`, never in several matching ones.
C20_ExactlyOneBucket ==
    \A incident \in DOMAIN intersections :
        LET intersection == incident[2] IN
        (pc \in {"graph", "built"}
            /\ intersection \in DOMAIN adjacencies
            /\ intersection \notin pending) =>
            \A v \in adjacencies[intersection] \ {incident[1]} :
                LET adjacent == <<intersection, v>>
                    plane    == between(VectorFrom(incident), VectorFrom(adjacent))
                IN  ~is_undefined(plane) =>
                        Cardinality(BucketsOf(incident, adjacent)) = 1


\* C21: when build has returned, every (incident, adjacent) pair whose plane
\* is undefined has `adjacent` as a successor in every defined-plane bucket
\* of `incident` and in a bucket of `incident` with an undefined plane,
\* also when `incident` has several collinear continuations.
C21_DeferredPairs ==
    pc = "built" =>
        \A incident \in DOMAIN intersections :
            \A v \in adjacencies[incident[2]] \ {incident[1]} :
                LET adjacent == <<incident[2], v>>
                    plane    == between(VectorFrom(incident), VectorFrom(adjacent))
                IN  is_undefined(plane) =>
                        /\ \A k \in 1..Len(intersections[incident]) :
                              intersections[incident][k].matcher.defined =>
                                  k \in BucketsOf(incident, adjacent)
                        /\ \E k \in BucketsOf(incident, adjacent) :
                              is_undefined(intersections[incident][k].matcher)


-----------------------------------------------------------------------------
(* Claims on the steps of PathBuilder::traverse, checked under Spec *)

\* traverse is entered: the call on top has not executed a statement yet
Entered == pc = "trace" /\ frames # <<>> /\ Top.at = "enter"

\* the check of the cache that traverse makes first: the transition from
\* the last two points of the stack to the destination is recorded with a
\* plane equal to the carried one
CacheHit ==
    /\ has_precedent(stack)
    /\ cache_contains(cache, <<precedent(stack)[1], precedent(stack)[2],
                               Top.current[2]>>, Top.plane)

\* the call on top returns `kind` and nothing is pushed or explored
ReturnsAtOnce(kind) ==
    /\ frames' = Pop(frames)
    /\ result'.kind = kind
    /\ stack' = stack
    /\ seen' = seen
    /\ cache' = cache

InFlight ==
    pc = "trace" /\ frames # <<>> /\ Top.at = "call" /\ result.kind = "Backtrack"

\* the stack as it was when the revisit was detected: the stack, and the
\* points the frames unwound so far have popped and appended
DetectedStack == stack \o Reverse(Tail(result.sequence))

\* the part of a sequence of distinct points from `point` to its end
From(sequence, point) ==
    SubSeq(sequence, CHOOSE i \in 1..Len(sequence) : sequence[i] = point,
           Len(sequence))

\* C24: a Backtrack starts with the stack of the detection; a frame whose
\* destination is not the Backtrack's pops its point, appends it and
\* returns the Backtrack; the frame whose destination is the Backtrack's
\* hands save the points of the detection stack from the destination to
\* the top, each once and closed by the destination, with the plane of the
\* Backtrack, and goes on with its next (matcher, successor) pair.
C24_BacktrackResolution ==
    [][/\ (Entered /\ result'.kind = "Backtrack") => DetectedStack' = stack
       /\ (InFlight /\ result.destination # Top.current[2]) =>
             /\ Top.current[2] = Last(stack)
             /\ result' = [result EXCEPT !.sequence = Append(@, Last(stack))]
             /\ stack' = Pop(stack)
             /\ DetectedStack' = DetectedStack
             /\ frames' = Pop(frames)
             /\ UNCHANGED <<paths, saved>>
       /\ (InFlight /\ result.destination = Top.current[2]) =>
             LET loop == From(DetectedStack, result.destination) IN
             /\ result.destination \in Range(DetectedStack)
             /\ \A i, j \in 1..Len(loop) : i # j => loop[i] # loop[j]
             /\ saved'.called
             /\ saved'.by = "Backtrack"
             /\ Len(saved'.path.sequence) = Len(loop) + 1
             /\ Range(saved'.path.sequence) = Range(loop)
             /\ saved'.path.sequence[1] = result.destination
             /\ Last(saved'.path.sequence) = result.destination
             /\ saved'.plane = result.plane
             /\ saved'.valid = is_valid_on(saved'.path, result.plane)
             /\ paths' = save(paths, saved'.path, result.plane)
             /\ frames' = [frames EXCEPT ![Len(frames)].at = "loop",
                                         ![Len(frames)].index = @ + 1]
             /\ result' = NoResult]_vars

\* the frame of the destination has saved the loop a Backtrack brought
\* back through two frames, and goes on with its loop
C24_Witness ==
    /\ pc = "trace"
    /\ frames # <<>>
    /\ Top.at = "loop"
    /\ Top.index > 1
    /\ result.kind = "None"
    /\ saved.by = "Backtrack"
    /\ Len(saved.path.sequence) = 4
    /\ saved.path.sequence[1] = Top.current[2]
    /\ saved.inserted


\* the call on top has iterated over all its (matcher, successor) pairs
Exhausted ==
    /\ pc = "trace"
    /\ frames # <<>>
    /\ Top.at = "loop"
    /\ Top.index > Len(MatchersOf(Top.current))

\* the entry a call with a precedent reads and writes
CacheKey == <<precedent(stack)[1], precedent(stack)[2], Top.current[2]>>

\* C25: an entry is added to the cache only by a call that has iterated
\* over all its pairs, under the key (stack[-2], stack[-1], destination)
\* with its carried plane, in the step in which it returns Done, and every
\* such call with a precedent adds it; a frame that passes on a Backtrack
\* for another destination returns at once and adds nothing; the call of
\* build on the root connection, whose stack holds one point, has no
\* precedent and leaves the cache as it is.
C25_CacheRecording ==
    [][/\ (cache' # cache /\ DOMAIN cache' # {}) =>
             /\ Exhausted
             /\ has_precedent(stack)
       /\ Exhausted =>
             /\ result'.kind = "Done"
             /\ frames' = Pop(frames)
             /\ cache' = IF has_precedent(stack)
                         THEN cache_insert(cache, CacheKey, Top.plane)
                         ELSE cache
             /\ has_precedent(stack) =>
                   /\ CacheKey \in DOMAIN cache'
                   /\ Last(cache'[CacheKey]) = Top.plane
       /\ (InFlight /\ result.destination # Top.current[2]) =>
             /\ frames' = Pop(frames)
             /\ result'.kind = "Backtrack"
             /\ cache' = cache
       /\ (pc = "trace" /\ Len(frames) = 1 /\ Top.at \in {"enter", "loop"}) =>
             /\ Len(stack) = 1
             /\ ~has_precedent(stack)
             /\ cache' = cache]_vars

\* a call two levels below the root has just recorded its transition and
\* returned Done to its caller
C25_Witness ==
    /\ pc = "trace"
    /\ frames # <<>>
    /\ Top.at = "call"
    /\ result.kind = "Done"
    /\ Len(stack) >= 3
    /\ \E key \in DOMAIN cache :
          /\ key[1] = stack[Len(stack) - 1]
          /\ key[2] = stack[Len(stack)]
          /\ Last(cache[key]).defined


-----------------------------------------------------------------------------
(* Claim on the triple that decides the orientation, checked under SpecOrient *)

\* the sequence the k-th application was applied to
Applied(results, k) ==
    IF k = 1 THEN operand.sequence ELSE results[k - 1].sequence

\* the least element of a non-empty set of indexes
Least(set) == CHOOSE i \in set : \A j \in set : i <= j

\* C26: reverse_if_normal_is_negative decides on the first consecutive
\* triple whose two edges are not parallel, alone: it returns the reversed
\* sequence iff the cross product of these two edges has a negative z, and
\* the sequence as it is when every triple is parallel; in path.rs and in
\* polygon.rs alike.
C26_FirstTripleDecides ==
    /\ \A k \in 1..Len(oriented) :
          LET seq  == Applied(oriented, k)
              free == {i \in 1..(Len(seq) - 2) :
                          cross(Edge(seq, i), Edge(seq, i + 1)) # ZeroVector}
          IN  oriented[k].sequence =
                  IF free # {} /\ NormalZ(seq, Least(free)) < 0
                  THEN Reverse(seq) ELSE seq
    /\ \A k \in 1..Len(polygonal) :
          LET seq  == Applied(polygonal, k)
              free == {i \in 1..(Len(seq) - 2) :
                          ~is_parallel_to(Edge(seq, i), Edge(seq, i + 1))}
          IN  polygonal[k].sequence =
                  IF free # {} /\ NormalZ(seq, Least(free)) < 0
                  THEN Reverse(seq) ELSE seq


-----------------------------------------------------------------------------
(* Claim on the pruned adjacencies as a 2-core, checked under SpecPrune *)

\* the points of `set` with at least 2 neighbours in `set`
KeepsTwo(set, adj) == {p \in set : Cardinality(adj[p] \cap set) >= 2}

\* the largest set of points in which every point keeps 2 neighbours
RECURSIVE Shrink(_, _)
Shrink(set, adj) ==
    IF KeepsTwo(set, adj) = set THEN set ELSE Shrink(KeepsTwo(set, adj), adj)

TwoCore(adj) == Shrink(DOMAIN adj, adj)

\* the connections of `adj` between the points of its 2-core
CoreOf(adj) == [p \in TwoCore(adj) |-> adj[p] \cap TwoCore(adj)]

\* C27: no step of the pruning removes a point of the 2-core of the
\* adjacencies built from the connections, nor a connection between two
\* points of it; and what from() returns is that 2-core with exactly the
\* connections between its points, each in both directions.
C27_TwoCore ==
    /\ [][(pc \in {"insert", "prune"} /\ lines' = lines /\ fed' = fed
             /\ first' = first) =>
              CoreOf(adjacencies') = CoreOf(adjacencies)]_vars
    /\ [](pc = "pruned" =>
              /\ adjacencies = CoreOf(adjacencies)
              /\ \A u \in DOMAIN adjacencies : \A v \in adjacencies[u] :
                    v \in DOMAIN adjacencies /\ u \in adjacencies[v])

\* from() has returned a cycle of three points after one round that
\* removed the dead ends of five connections
C27_Witness ==
    /\ pc = "pruned"
    /\ first = NotRun
    /\ fed = 5
    /\ rounds = 1
    /\ Cardinality(DOMAIN adjacencies) = 3
    /\ adjacencies = CoreOf(adjacencies)


-----------------------------------------------------------------------------
(* Claim on the stack and the visited set, checked under Spec *)

\* the calls of traverse that wait for a call they made: each of them has
\* pushed its destination
Waiting ==
    IF frames = <<>> THEN 0
    ELSE IF Top.at = "call" THEN Len(frames) ELSE Len(frames) - 1

\* C28: the visited set is the set of the points of the stack and the
\* stack holds no point twice; the stack is the root followed by the
\* destinations of the calls that wait for a call they made, so that it is
\* the same when a call returns as when that call was made, whatever it
\* returns; and the stack and the visited set are empty before and after
\* each root connection.
C28_StackAndSeen ==
    /\ seen = Range(stack)
    /\ \A i, j \in 1..Len(stack) : i # j => stack[i] # stack[j]
    /\ frames # <<>> =>
          /\ \A i \in 1..(Len(frames) - 1) : frames[i].at = "call"
          /\ stack = <<frames[1].current[1]>>
                        \o [i \in 1..Waiting |-> frames[i].current[2]]
    /\ (pc = "trace" /\ frames = <<>>) =>
          IF result.kind = "None" THEN stack = <<>> ELSE Len(stack) = 1
    /\ pc # "trace" => stack = <<>>

\* a call four levels deep has returned a Backtrack to its caller, with the
\* stack as the caller left it
C28_Witness ==
    /\ pc = "trace"
    /\ Len(frames) = 3
    /\ Top.at = "call"
    /\ result.kind = "Backtrack"
    /\ Len(stack) = 4
    /\ seen = Range(stack)


-----------------------------------------------------------------------------
(* Claim on the polygons as cycles of the pruned graph, checked under Spec *)

\* the points of the connections of the wireframe
InputPoints == UNION {{connections[i][1], connections[i][2]} : i \in 1..Len(connections)}

\* C29: every Path of `paths` is a simple cycle of the pruned adjacencies:
\* its sequence has at least 3 distinct points followed by the first one
\* again, no point twice before that, and every two consecutive points are
\* neighbours in the adjacencies pruning has left, so that no pruned point
\* is on it.
C29_SimpleCycles ==
    \A k \in 1..Len(paths) :
        LET seq == paths[k].sequence
            n   == Len(seq) - 1
        IN  /\ n >= 3
            /\ seq[n + 1] = seq[1]
            /\ \A i, j \in 1..n : i # j => seq[i] # seq[j]
            /\ \A i \in 1..n :
                  /\ seq[i] \in DOMAIN adjacencies
                  /\ seq[i + 1] \in adjacencies[seq[i]]

\* build has returned the face of a wireframe two points of which were
\* pruned as dead ends
C29_Witness ==
    /\ pc = "done"
    /\ run = 1
    /\ Cardinality(InputPoints \ DOMAIN adjacencies) = 2
    /\ Len(paths) = 1
    /\ Len(paths[1].sequence) = 6
    /\ Range(paths[1].sequence) \cap (InputPoints \ DOMAIN adjacencies) = {}


-----------------------------------------------------------------------------
(* Claim on the cache under an undefined plane, checked under Spec *)

\* the planes recorded in the cache
Recorded(table) == UNION {Range(table[t]) : t \in DOMAIN table}

\* C30 as stated: under an undefined carried plane a call is never answered
\* from the cache, and every call that has exhausted its pairs under an
\* undefined plane leaves one more entry in the cache.
C30_UndefinedDoneAppends ==
    [][/\ (Entered /\ is_undefined(Top.plane)) => result'.kind # "Done"
       /\ (Exhausted /\ is_undefined(Top.plane)) => cache' # cache]_vars

\* C30, amended: no lookup with an undefined plane hits, whatever the cache
\* holds; in build only the root-level call carries an undefined plane, every
\* call below it carries a defined one; the root-level call, having no
\* precedent, is never answered from the cache and records nothing when it
\* has exhausted its pairs; so no undefined plane is ever in the cache.
C30_UndefinedNeverRecorded ==
    /\ [](\A t \in DOMAIN cache : ~cache_contains(cache, t, UndefinedPlane))
    /\ [](\A i \in 2..Len(frames) : ~is_undefined(frames[i].plane))
    /\ [](\A plane \in Recorded(cache) : ~is_undefined(plane))
    /\ [][/\ (Entered /\ is_undefined(Top.plane)) =>
              /\ Len(frames) = 1
              /\ ~has_precedent(stack)
              /\ result'.kind # "Done"
        /\ (Exhausted /\ is_undefined(Top.plane)) =>
              /\ Len(frames) = 1
              /\ ~has_precedent(stack)
              /\ cache' = cache]_vars

\* the root-level call has exhausted its pairs under its undefined plane
\* while the cache holds the entries of the calls below it
C30_Witness ==
    /\ Exhausted
    /\ is_undefined(Top.plane)
    /\ Len(frames) = 1
    /\ DOMAIN cache # {}
====
